---------------------------- MODULE Spec2Model ----------------------------
(***************************************************************************)
(* A model of python-smartcolors: the MSB-drop value padding codec, the    *)
(* colour kernel, the colour proofs and their validation, the colour proof *)
(* database and the merklized radix tree.                                  *)
(*                                                                         *)
(* Python integers are unbounded and the codec works on 64-bit values, so  *)
(* every integer the codec or the nSequence decoding touches is a bit      *)
(* vector: a sequence of 0/1, least significant bit first, with no high    *)
(* zero bits (the number 0 is the empty sequence).  Quantities of colour   *)
(* are small naturals.                                                     *)
(***************************************************************************)
EXTENDS Integers, Sequences, FiniteSets, TLC

VARIABLES
    pad,                    \* the codec harness: one add/remove round
    kern,                   \* the kernel harness: one apply_kernel call
    tree,                   \* the radix tree harness: the heap of nodes and the tip
    db,                     \* a ColorProofDb and the last call made on it
    prf,                    \* the proof harness: one proof, its transaction, validate()
    dag,                    \* the DagTuple harness: the tuples built and the last call
    wal                     \* the wallet harness: one create_nSequence_color_tx call

vars == <<pad, kern, tree, db, prf, dag, wal>>

(***************************************************************************)
(* Bounds of the model.                                                    *)
(***************************************************************************)
MaxSmallQty == 4            \* small unpadded values tried: 0..MaxSmallQty
MaxSmallMin == 12           \* small minimum values tried: 0..MaxSmallMin
MaxKernelOutputs == 2       \* outputs of a transaction (beside the 17-output ones)
MaxKernelInputs == 2        \* inputs of a transaction
MaxKernelQty == 2           \* colour quantity of one input: 0..MaxKernelQty
KeyBits == 3                \* bits of a radix tree key (KEYSIZE * 8 in the code)
MaxDbOps == 3               \* calls made on one ColorProofDb
MaxTreeOps == 4             \* items and operations given to one radix tree
MaxLookupOps == 2           \* items and operations given to a tree before a lookup
MaxPrfOps == 3              \* calls made on one colour proof

(***************************************************************************)
(* Bit vectors: Python's int operators as the code uses them.              *)
(***************************************************************************)
\* F(value), the value computed once before F uses it
Eval(value, F(_)) == CHOOSE result \in {F(v) : v \in {value}} : TRUE

RECURSIVE NatToBits(_)
NatToBits(n) == IF n = 0 THEN <<>> ELSE <<n % 2>> \o NatToBits(n \div 2)

\* the number of which b holds the bits from position i on
RECURSIVE BitsToNatFrom(_, _)
BitsToNatFrom(b, i) == IF i > Len(b) THEN 0 ELSE b[i] + 2 * BitsToNatFrom(b, i + 1)

BitsToNat(b) == BitsToNatFrom(b, 1)

\* bit i of b (b >> i) & 1
Bit(b, i) == IF i < Len(b) THEN b[i + 1] ELSE 0

\* drop the high zero bits
Trim(b) ==
    Eval(b, LAMBDA bits :
        IF bits = <<>> THEN <<>>
        ELSE IF bits[Len(bits)] = 1 THEN bits
        ELSE IF \A i \in 1..Len(bits) : bits[i] = 0 THEN <<>>
        ELSE SubSeq(bits, 1, CHOOSE i \in 1..Len(bits) :
                 bits[i] = 1 /\ \A j \in (i + 1)..Len(bits) : bits[j] = 0))

MaxOf(x, y) == IF x >= y THEN x ELSE y
MinOf(x, y) == IF x <= y THEN x ELSE y

\* b << k
Shl(b, k) == IF b = <<>> THEN <<>> ELSE [x \in 1..k |-> 0] \o b

\* b >> k
Shr(b, k) == SubSeq(b, k + 1, Len(b))

\* 1 << i
OneShl(i) == [k \in 1..(i + 1) |-> IF k = i + 1 THEN 1 ELSE 0]

\* 2**n - 1
AllOnes(n) == [k \in 1..n |-> 1]

\* a | b
BitOr(a, b) ==
    Trim([k \in 1..MaxOf(Len(a), Len(b)) |->
            IF Bit(a, k - 1) = 1 \/ Bit(b, k - 1) = 1 THEN 1 ELSE 0])

\* a ^ b
BitXor(a, b) ==
    Trim([k \in 1..MaxOf(Len(a), Len(b)) |->
            IF Bit(a, k - 1) # Bit(b, k - 1) THEN 1 ELSE 0])

\* b & ~(1 << i)
ClearBit(b, i) == Trim([k \in 1..Len(b) |-> IF k = i + 1 THEN 0 ELSE b[k]])

\* a < b
Less(a, b) ==
    \/ Len(a) < Len(b)
    \/ /\ Len(a) = Len(b)
       /\ \E i \in 1..Len(a) :
            /\ a[i] < b[i]
            /\ \A j \in (i + 1)..Len(a) : a[j] = b[j]

\* a <= b
LessEq(a, b) == a = b \/ Less(a, b)

\* the set of the items of a sequence
ItemSet(items) == {items[i] : i \in 1..Len(items)}

\* the orders in which the items of a set can be iterated
SeqsOf(S) == {s \in [1..Cardinality(S) -> S] : ItemSet(s) = S}

(***************************************************************************)
(* What a call gives: a value, or the exception it raised.                 *)
(***************************************************************************)
Returned(v) == [exc |-> "none", value |-> v]
Raised(e) == [exc |-> e, value |-> <<>>]
NotCalled == [exc |-> "notcalled", value |-> <<>>]

(***************************************************************************)
(* remove_msbdrop_value_padding                                            *)
(***************************************************************************)
remove_msbdrop_value_padding(padded_nValue) ==
    IF Bit(padded_nValue, 0) = 0
    THEN \* MSB padding was not used
         Returned(Shr(padded_nValue, 1))
    ELSE LET set == {i \in 1..63 : i < Len(padded_nValue) /\ padded_nValue[i + 1] = 1}
         IN  IF set # {}
             THEN \* the first i of range(63, 0, -1) whose bit is set
                  LET i == CHOOSE x \in set : \A y \in set : y <= x
                  IN  Returned(Shr(ClearBit(padded_nValue, i), 1))
             ELSE \* assert padded_nValue >> 1 == 0
                  IF Shr(padded_nValue, 1) = <<>>
                  THEN Returned(<<>>)
                  ELSE Raised("AssertionError")

(***************************************************************************)
(* add_msbdrop_value_padding                                               *)
(***************************************************************************)
\* a first loop that leaves i as it is
PadLoopSizeSkipped(i, unpadded_nValue) == i

\* while (1 << i) < (unpadded_nValue << 1) | 0b1: i += 1
RECURSIVE PadLoopSize(_, _)
PadLoopSize(i, unpadded_nValue) ==
    IF Less(OneShl(i), BitOr(Shl(unpadded_nValue, 1), <<1>>))
    THEN PadLoopSize(i + 1, unpadded_nValue)
    ELSE i

\* while (1 << i) | (unpadded_nValue << 1) | 0b1 < minimum_nValue: i += 1
RECURSIVE PadLoopMinimum(_, _, _)
PadLoopMinimum(i, unpadded_nValue, minimum_nValue) ==
    IF Less(BitOr(BitOr(OneShl(i), Shl(unpadded_nValue, 1)), <<1>>), minimum_nValue)
    THEN PadLoopMinimum(i + 1, unpadded_nValue, minimum_nValue)
    ELSE i

\* add_msbdrop_value_padding(unpadded_nValue, minimum_nValue)
add_msbdrop_value_padding(unpadded_nValue, minimum_nValue) ==
    IF ~ LessEq(minimum_nValue, AllOnes(64))
    THEN Raised("ValueError")
    ELSE IF ~ LessEq(unpadded_nValue, AllOnes(62))
    THEN Raised("ValueError")
    ELSE IF LessEq(minimum_nValue, Shl(unpadded_nValue, 1))
    THEN \* No padding needed
         Returned(Shl(unpadded_nValue, 1))
    ELSE LET i == PadLoopMinimum(PadLoopSize(0, unpadded_nValue),
                                 unpadded_nValue, minimum_nValue)
         IN  Returned(BitOr(BitOr(OneShl(i), Shl(unpadded_nValue, 1)), <<1>>))

(***************************************************************************)
(* The codec harness: a value is padded, then the padded value unpadded,   *)
(* as Test_MSB_Drop_padding.test_padding does.                             *)
(***************************************************************************)
SmallQtys == {NatToBits(n) : n \in 0..MaxSmallQty}

\* the unpadded values tried: small ones, and the ends of [0, 2**62-1]
PadQtys ==
    SmallQtys \cup {AllOnes(62), Shl(AllOnes(61), 1), OneShl(62)}

\* the minimums tried: small ones, 2**63 + k for small k, and the ends of
\* [0, 2**64-1]
PadMinimums ==
    {NatToBits(n) : n \in 0..MaxSmallMin}
        \cup {BitOr(OneShl(63), NatToBits(n)) : n \in 0..MaxSmallMin}
        \cup {AllOnes(63), AllOnes(64), Shl(AllOnes(63), 1), OneShl(64)}

PadIdle == [pc |-> "idle", unpadded |-> <<>>, minimum |-> <<>>,
            padded |-> NotCalled, roundtrip |-> NotCalled]

PadInit ==
    \E q \in PadQtys, m \in PadMinimums :
        pad = [pc |-> "start", unpadded |-> q, minimum |-> m,
               padded |-> NotCalled, roundtrip |-> NotCalled]

DoAddPadding ==
    /\ pad.pc = "start"
    /\ pad' = [pad EXCEPT !.pc = "padded",
                          !.padded = add_msbdrop_value_padding(pad.unpadded, pad.minimum)]
    /\ UNCHANGED <<kern, tree, db, prf, dag, wal>>

DoRemovePadding ==
    /\ pad.pc = "padded"
    /\ pad.padded.exc = "none"
    /\ pad' = [pad EXCEPT !.pc = "unpadded",
                          !.roundtrip = remove_msbdrop_value_padding(pad.padded.value)]
    /\ UNCHANGED <<kern, tree, db, prf, dag, wal>>

(***************************************************************************)
(* Ledger values.  A transaction id is a number; 0 is a transaction that   *)
(* is not known.  None is Python's None where a quantity is expected.      *)
(***************************************************************************)
None == -1

COutPoint(hash, n) == [hash |-> hash, n |-> n]
CTxIn(prevout, nSequence) == [prevout |-> prevout, nSequence |-> nSequence]
CTxOut(nValue, scriptPubKey) == [nValue |-> nValue, scriptPubKey |-> scriptPubKey]
CTransaction(vin, vout) == [vin |-> vin, vout |-> vout]

\* bits lo .. lo+width-1 of b:  (b >> lo) & (2**width - 1)
Slice(b, lo, width) == Trim([k \in 1..width |-> Bit(b, lo + k - 1)])

(***************************************************************************)
(* ColorDef                                                                *)
(***************************************************************************)
ColorDef(stegkey, genesis_outpoints, genesis_scriptPubKeys) ==
    [stegkey |-> stegkey,
     genesis_outpoints |-> genesis_outpoints,
     genesis_scriptPubKeys |-> genesis_scriptPubKeys]

\* The low 32 bits of Hash(magic + stegkey + outpoint.hash + outpoint.n):
\* the hash is a fixed function of the stegkey and the outpoint with no
\* structure the kernel could rely on.
nSequence_pad(colordef, outpoint) ==
    LET s == 7 * colordef.stegkey + 3 * outpoint.hash + outpoint.n
    IN  Trim([k \in 1..32 |-> (((s + k) * (s + k + 1)) \div 2 + (k \div 3) * s) % 2])

\* "if remaining_color_qty_in and (colored_bitfield >> j) & 0b1 == 1"
OutputTakenBitOnly(remaining_color_qty_in, colored_bitfield, j) ==
    Bit(colored_bitfield, j) = 1

OutputTaken(remaining_color_qty_in, colored_bitfield, j) ==
    remaining_color_qty_in # 0 /\ Bit(colored_bitfield, j) = 1

\* "remaining_color_qty_in -= color_transferred"
RemainingKept(remaining_color_qty_in, color_transferred) ==
    remaining_color_qty_in

RemainingAfter(remaining_color_qty_in, color_transferred) ==
    remaining_color_qty_in - color_transferred

\* a transfer of all the input has left, whatever the output can take
ColorTransferredAll(remaining_color_qty_in, max_color_qty_out, color_qty_out) ==
    remaining_color_qty_in

\* a transfer that takes the whole capacity of the output as free
ColorTransferredFresh(remaining_color_qty_in, max_color_qty_out, color_qty_out) ==
    MinOf(remaining_color_qty_in, max_color_qty_out)

\* "min(remaining_color_qty_in, max_color_qty_out - color_qtys_out[j])"
ColorTransferred(remaining_color_qty_in, max_color_qty_out, color_qty_out) ==
    MinOf(remaining_color_qty_in, max_color_qty_out - color_qty_out)

\* One pass of the loop "for j in range(min(len(tx.vout), 16))" from index
\* j on.  trace is the value of remaining_color_qty_in at the head of every
\* iteration so far.
RECURSIVE KernelLoop(_, _, _, _, _, _)
KernelLoop(j, remaining_color_qty_in, color_qtys_out, colored_bitfield, tx, trace) ==
    IF j >= MinOf(Len(tx.vout), 16)
    THEN [exc |-> "none", out |-> color_qtys_out,
          remaining |-> remaining_color_qty_in, trace |-> trace]
    ELSE IF OutputTaken(remaining_color_qty_in, colored_bitfield, j)
    THEN LET marked == IF color_qtys_out[j + 1] = None THEN 0 ELSE color_qtys_out[j + 1]
             unpadded == remove_msbdrop_value_padding(tx.vout[j + 1].nValue)
             max_color_qty_out == BitsToNat(unpadded.value)
             color_transferred ==
                 ColorTransferred(remaining_color_qty_in, max_color_qty_out, marked)
         IN  IF unpadded.exc # "none"
             THEN [exc |-> unpadded.exc, out |-> color_qtys_out,
                   remaining |-> remaining_color_qty_in, trace |-> trace]
             ELSE IF \/ color_transferred < 0
                     \/ RemainingAfter(remaining_color_qty_in, color_transferred) < 0
             THEN [exc |-> "AssertionError",
                   out |-> [color_qtys_out EXCEPT ![j + 1] = marked + color_transferred],
                   remaining |-> RemainingAfter(remaining_color_qty_in, color_transferred),
                   trace |-> Append(trace, remaining_color_qty_in)]
             ELSE KernelLoop(j + 1, RemainingAfter(remaining_color_qty_in, color_transferred),
                             [color_qtys_out EXCEPT ![j + 1] = marked + color_transferred],
                             colored_bitfield, tx,
                             Append(trace, remaining_color_qty_in))
    ELSE KernelLoop(j + 1, remaining_color_qty_in, color_qtys_out,
                    colored_bitfield, tx, Append(trace, remaining_color_qty_in))

\* the nSequence with the pad removed when bit 7 is set
decrypted_nSequence(colordef, txin) ==
    IF Bit(txin.nSequence, 7) = 1
    THEN BitXor(txin.nSequence, nSequence_pad(colordef, txin.prevout))
    ELSE txin.nSequence

\* bits 31-16 of the decrypted nSequence
colored_bitfield(colordef, txin) == Slice(decrypted_nSequence(colordef, txin), 16, 16)

\* a kernel that moves nothing for an input of a kernel number it does not know
calc_color_transferred_lenient(colordef, txin, color_qty_in, color_qtys_out, tx) ==
    LET qty_shift == BitsToNat(Slice(decrypted_nSequence(colordef, txin), 8, 8))
    IN  IF BitsToNat(Slice(txin.nSequence, 0, 7)) # 126
        THEN [exc |-> "none", out |-> color_qtys_out, remaining |-> color_qty_in,
              trace |-> [j \in 1..Len(tx.vout) |-> 0]]
        ELSE IF qty_shift # 0
        THEN [exc |-> "AssertionError", out |-> color_qtys_out,
              remaining |-> color_qty_in, trace |-> <<>>]
        ELSE KernelLoop(0, color_qty_in, color_qtys_out,
                        colored_bitfield(colordef, txin), tx, <<>>)

\* ColorDef.calc_color_transferred(txin, color_qty_in, color_qtys_out, tx)
calc_color_transferred(colordef, txin, color_qty_in, color_qtys_out, tx) ==
    LET kernel_num == BitsToNat(Slice(txin.nSequence, 0, 7))
        qty_shift == BitsToNat(Slice(decrypted_nSequence(colordef, txin), 8, 8))
        failed(e) == [exc |-> e, out |-> color_qtys_out,
                      remaining |-> color_qty_in, trace |-> <<>>]
    IN  IF kernel_num = 127
        THEN failed("NotImplementedError")
        ELSE IF kernel_num = 126
        THEN IF qty_shift # 0
             THEN failed("AssertionError")
             ELSE KernelLoop(0, color_qty_in, color_qtys_out,
                             colored_bitfield(colordef, txin), tx, <<>>)
        ELSE failed("NotImplementedError")

\* a lookup that finds no input coloured
color_qty_unknown(color_qty_by_outpoint, prevout) == None

\* color_qty_by_outpoint[txin.prevout], None on KeyError
color_qty_of(color_qty_by_outpoint, prevout) ==
    IF prevout \in DOMAIN color_qty_by_outpoint
    THEN color_qty_by_outpoint[prevout]
    ELSE None

\* "for txin in tx.vin" of apply_kernel, from input i on
RECURSIVE KernelInputs(_, _, _, _, _)
KernelInputs(colordef, tx, color_qty_by_outpoint, i, color_qtys_out) ==
    IF i > Len(tx.vin)
    THEN Returned(color_qtys_out)
    ELSE LET color_qty_in == color_qty_of(color_qty_by_outpoint, tx.vin[i].prevout)
         IN  IF color_qty_in = None
             THEN KernelInputs(colordef, tx, color_qty_by_outpoint, i + 1, color_qtys_out)
             ELSE LET r == calc_color_transferred(colordef, tx.vin[i], color_qty_in,
                                                  color_qtys_out, tx)
                  IN  IF r.exc # "none"
                      THEN Raised(r.exc)
                      ELSE KernelInputs(colordef, tx, color_qty_by_outpoint, i + 1, r.out)

apply_kernel(colordef, tx, color_qty_by_outpoint) ==
    KernelInputs(colordef, tx, color_qty_by_outpoint, 1,
                 [j \in 1..Len(tx.vout) |-> None])

(***************************************************************************)
(* The kernel harness: apply_kernel on one transaction, one input of       *)
(* tx.vin per step.  Beside the code's color_qtys_out it records what the  *)
(* inputs brought: the sum of the coloured inputs' quantities, whether an  *)
(* input had quantity left after its loop, the outputs whose bit a         *)
(* coloured input's mask sets, and the outputs that an input reached with  *)
(* its bit set and quantity remaining, and whether a coloured input had a  *)
(* kernel number other than 0x7E (foreign).                                *)
(***************************************************************************)
\* nSequence as make_color_tx builds it: mask << 16 | qty_shift << 8 | kernel
PlainNSequence(mask, qty_shift, kernel_num) ==
    BitOr(Shl(NatToBits(mask), 16),
          BitOr(Shl(NatToBits(qty_shift), 8), NatToBits(kernel_num)))

\* 0xFE | (0xFFFFFF00 & ((mask << 16) ^ nSequence_pad(prevout)))
StegNSequence(colordef, prevout, mask) ==
    BitOr(NatToBits(254),
          Shl(Shr(BitXor(Shl(NatToBits(mask), 16), nSequence_pad(colordef, prevout)), 8), 8))

KernelColorDef == ColorDef(1, <<>>, {})

\* the output nValues tried: 0, 1 << 1, 2 << 1, and 1 padded to 0b111
KernelNValues == {NatToBits(0), NatToBits(2), NatToBits(4), NatToBits(7)}

\* the outputs tried: up to MaxKernelOutputs outputs, and 17 outputs of which
\* the first 15 hold nothing
KernelVouts ==
    LET short == UNION {[1..n -> KernelNValues] : n \in 0..MaxKernelOutputs}
        wide == {[k \in 1..17 |-> IF k <= 15 THEN <<>> ELSE IF k = 16 THEN a ELSE b] :
                    a \in {NatToBits(0), NatToBits(2)}, b \in {NatToBits(0), NatToBits(2)}}
    IN  {[k \in 1..Len(v) |-> CTxOut(v[k], 0)] : v \in short \cup wide}

\* the 16-bit masks tried: every choice among the first MaxKernelOutputs
\* outputs, bit 15 alone, and all bits
KernelMasks == 0..(2 ^ MaxKernelOutputs - 1) \cup {32768, 65535}

\* the inputs tried at position i of tx.vin: input i spends outpoint (0, i)
KernelTxins ==
    [i \in 0..MaxKernelInputs |->
        LET prevout == COutPoint(0, i)
        IN  {CTxIn(prevout, nSequence) : nSequence \in
                {PlainNSequence(m, 0, 126) : m \in KernelMasks}
                    \cup {StegNSequence(KernelColorDef, prevout, m) : m \in {1, 2, 65535}}
                    \cup {PlainNSequence(65535, 1, 126), PlainNSequence(65535, 0, 127),
                          PlainNSequence(65535, 0, 0), AllOnes(32)}}]

\* "txin.nSequence & 0x7F"
KernelNum(txin) == BitsToNat(Slice(txin.nSequence, 0, 7))

KernIdle == [pc |-> "idle"]

KernInit ==
    \E vout \in KernelVouts :
        kern = [pc |-> "loop", vout |-> vout, nin |-> 0,
                color_qtys_out |-> [j \in 1..Len(vout) |-> None],
                exc |-> "none", sum_in |-> 0, leftover |-> FALSE,
                reached |-> {}, marked |-> {}, foreign |-> FALSE]

\* one iteration of "for txin in tx.vin" of apply_kernel
KernelTxin ==
    /\ kern.pc = "loop"
    /\ kern.nin < MaxKernelInputs
    /\ \E color_qty_in \in {None} \cup 0..MaxKernelQty :
           IF color_qty_in = None
           THEN kern' = [kern EXCEPT !.nin = @ + 1]
           ELSE \E txin \in KernelTxins[kern.nin] :
                \E r \in {calc_color_transferred(KernelColorDef, txin, color_qty_in,
                             kern.color_qtys_out, CTransaction(<<txin>>, kern.vout))} :
                \E bitfield \in {colored_bitfield(KernelColorDef, txin)} :
                    IF r.exc # "none"
                    THEN kern' = [kern EXCEPT !.pc = "raised", !.exc = r.exc,
                                              !.color_qtys_out = r.out,
                                              !.foreign = @ \/ KernelNum(txin) # 126]
                    ELSE kern' = [kern EXCEPT
                            !.nin = @ + 1,
                            !.foreign = @ \/ KernelNum(txin) # 126,
                            !.color_qtys_out = r.out,
                            !.sum_in = @ + color_qty_in,
                            !.leftover = @ \/ r.remaining > 0,
                            !.marked = @ \cup {j \in 0..(Len(kern.vout) - 1) :
                                                  Bit(bitfield, j) = 1},
                            !.reached = @ \cup {j \in 0..(Len(kern.vout) - 1) :
                                                  /\ j < 16
                                                  /\ Bit(bitfield, j) = 1
                                                  /\ r.trace[j + 1] > 0}]
    /\ UNCHANGED <<pad, tree, db, prf, dag, wal>>

\* "return color_qtys_out"
KernelReturn ==
    /\ kern.pc = "loop"
    /\ kern' = [kern EXCEPT !.pc = "returned"]
    /\ UNCHANGED <<pad, tree, db, prf, dag, wal>>

(***************************************************************************)
(* apply_kernel with the code's own state alone: the outputs' quantities   *)
(* and the position in tx.vin.                                             *)
(***************************************************************************)
\* "color_qtys_out = [None] * len(tx.vout)"
ApplyKernelInit ==
    \E vout \in KernelVouts :
        kern = [pc |-> "loop", vout |-> vout, nin |-> 0,
                color_qtys_out |-> [j \in 1..Len(vout) |-> None], exc |-> "none"]

\* one iteration of "for txin in tx.vin": an input that is not coloured is
\* skipped, a coloured one goes through calc_color_transferred
ApplyKernelTxin ==
    /\ kern.pc = "loop"
    /\ kern.nin < MaxKernelInputs
    /\ \E color_qty_in \in {None} \cup 0..MaxKernelQty :
           IF color_qty_in = None
           THEN kern' = [kern EXCEPT !.nin = @ + 1]
           ELSE \E txin \in KernelTxins[kern.nin] :
                \E r \in {calc_color_transferred(KernelColorDef, txin, color_qty_in,
                             kern.color_qtys_out, CTransaction(<<txin>>, kern.vout))} :
                    IF r.exc # "none"
                    THEN kern' = [kern EXCEPT !.pc = "raised", !.exc = r.exc,
                                              !.color_qtys_out = r.out]
                    ELSE kern' = [kern EXCEPT !.nin = @ + 1, !.color_qtys_out = r.out]
    /\ UNCHANGED <<pad, tree, db, prf, dag, wal>>

\* "return color_qtys_out"
ApplyKernelReturn ==
    /\ kern.pc = "loop"
    /\ kern' = [kern EXCEPT !.pc = "returned"]
    /\ UNCHANGED <<pad, tree, db, prf, dag, wal>>

(***************************************************************************)
(* The transactions of the model.  A transaction's hash is its position in *)
(* LedgerTxs, so an outpoint names a transaction by that position; hash 0  *)
(* is a transaction the ledger does not hold.  Scripts are small numbers.  *)
(***************************************************************************)
LedgerTxs ==
    <<  \* 1: spends (0, 0), bit 0, to an output of capacity 1 with script 7
        CTransaction(<<CTxIn(COutPoint(0, 0), PlainNSequence(1, 0, 126))>>,
                     <<CTxOut(NatToBits(2), 7)>>),
        \* 2: spends (1, 0), bit 0, to outputs of capacity 2 and 1
        CTransaction(<<CTxIn(COutPoint(1, 0), PlainNSequence(1, 0, 126))>>,
                     <<CTxOut(NatToBits(4), 0), CTxOut(NatToBits(2), 0)>>),
        \* 3: spends (0, 0), bit 0 under the pad of stegkey 1, capacity 2
        CTransaction(<<CTxIn(COutPoint(0, 0),
                             StegNSequence(ColorDef(1, <<>>, {}), COutPoint(0, 0), 1))>>,
                     <<CTxOut(NatToBits(4), 0)>>),
        \* 4: spends (0, 0), bit 0, with bits 8-15 not zero
        CTransaction(<<CTxIn(COutPoint(0, 0), PlainNSequence(1, 1, 126))>>,
                     <<CTxOut(NatToBits(4), 0)>>),
        \* 5: spends (1, 0) and (0, 0), bits 0 and 0-1, to two outputs of capacity 2
        CTransaction(<<CTxIn(COutPoint(1, 0), PlainNSequence(1, 0, 126)),
                       CTxIn(COutPoint(0, 0), PlainNSequence(3, 0, 126))>>,
                     <<CTxOut(NatToBits(4), 0), CTxOut(NatToBits(4), 7)>>),
        \* 6: spends (0, 0) with the kernel 0x7F
        CTransaction(<<CTxIn(COutPoint(0, 0), AllOnes(32))>>,
                     <<CTxOut(NatToBits(4), 0)>>),
        \* 7: spends (0, 0), bit 1 only, to outputs of capacity 2 and 2
        CTransaction(<<CTxIn(COutPoint(0, 0), PlainNSequence(2, 0, 126))>>,
                     <<CTxOut(NatToBits(4), 0), CTxOut(NatToBits(4), 0)>>) >>

\* tx.GetHash(); a transaction outside the ledger hashes to a number of its own
TxHash(tx) ==
    IF \E i \in 1..Len(LedgerTxs) : LedgerTxs[i] = tx
    THEN CHOOSE i \in 1..Len(LedgerTxs) : LedgerTxs[i] = tx
    ELSE Len(LedgerTxs) + 1

(***************************************************************************)
(* Colour proofs: immutable records.  prevout_proofs is a function from    *)
(* the prevouts to their proofs; _cached_qty is None until qty was read.   *)
(***************************************************************************)
GenesisOutPointColorProof(colordef, outpoint) ==
    [kind |-> "GenesisOutPoint", colordef |-> colordef, outpoint |-> outpoint]

GenesisScriptPubKeyColorProof(colordef, outpoint, tx) ==
    [kind |-> "GenesisScriptPubKey", colordef |-> colordef, n |-> outpoint.n, tx |-> tx]

TransferredColorProof(colordef, outpoint, tx, prevout_proofs) ==
    [kind |-> "Transferred", colordef |-> colordef, n |-> outpoint.n, tx |-> tx,
     prevout_proofs |-> prevout_proofs, _cached_qty |-> None]

\* the outpoint property of the three classes
outpoint_of(proof) ==
    IF proof.kind = "GenesisOutPoint" THEN proof.outpoint
    ELSE COutPoint(TxHash(proof.tx), proof.n)

\* a quantity returned, or the exception raised instead
QtyReturned(qty) == [exc |-> "none", value |-> qty]
QtyRaised(e) == [exc |-> e, value |-> None]

\* the order in which a merbinner tree gives its items: by key
ItemsOrder(outpoints) ==
    CHOOSE s \in [1..Cardinality(outpoints) -> outpoints] :
        /\ \A o \in outpoints : \E i \in 1..Len(s) : s[i] = o
        /\ \A i, j \in 1..Len(s) :
              i < j => \/ s[i].hash < s[j].hash
                       \/ s[i].hash = s[j].hash /\ s[i].n < s[j].n

RECURSIVE qty(_), calc_qty(_), PrevoutQtys(_, _, _)

\* "{prevout: colorproof.qty for prevout, colorproof in prevout_proofs.items()}"
\* from item i on; the first qty that raises ends it
PrevoutQtys(proof, order, i) ==
    IF i > Len(order) THEN [exc |-> "none", qtys |-> <<>>]
    ELSE Eval(qty(proof.prevout_proofs[order[i]]), LAMBDA q :
            IF q.exc # "none" THEN [exc |-> q.exc, qtys |-> <<>>]
            ELSE Eval(PrevoutQtys(proof, order, i + 1), LAMBDA rest :
                    IF rest.exc # "none" THEN rest
                    ELSE [exc |-> "none", qtys |-> <<q.value>> \o rest.qtys]))

\* TransferredColorProof.calc_qty()
calc_qty(proof) ==
    LET order == ItemsOrder(DOMAIN proof.prevout_proofs)
    IN  Eval(PrevoutQtys(proof, order, 1), LAMBDA qtys :
            IF qtys.exc # "none" THEN QtyRaised(qtys.exc)
            ELSE Eval([o \in DOMAIN proof.prevout_proofs |->
                          qtys.qtys[CHOOSE i \in 1..Len(order) : order[i] = o]],
                      LAMBDA color_qty_by_outpoint :
                 Eval(apply_kernel(proof.colordef, proof.tx, color_qty_by_outpoint),
                      LAMBDA color_qty_out :
                    IF color_qty_out.exc # "none" THEN QtyRaised(color_qty_out.exc)
                    ELSE IF proof.n >= Len(color_qty_out.value)
                    THEN QtyRaised("ColorProofValidationError")
                    ELSE IF color_qty_out.value[proof.n + 1] = None
                    THEN QtyRaised("ColorProofValidationError")
                    ELSE QtyReturned(color_qty_out.value[proof.n + 1]))))

\* the qty property of the three classes
qty(proof) ==
    IF proof.kind = "GenesisOutPoint"
    THEN (IF proof.outpoint \in DOMAIN proof.colordef.genesis_outpoints
          THEN QtyReturned(proof.colordef.genesis_outpoints[proof.outpoint])
          ELSE QtyRaised("KeyError"))
    ELSE IF proof.kind = "GenesisScriptPubKey"
    THEN (IF proof.n >= Len(proof.tx.vout) THEN QtyRaised("IndexError")
          ELSE LET unpadded == remove_msbdrop_value_padding(proof.tx.vout[proof.n + 1].nValue)
               IN  IF unpadded.exc # "none" THEN QtyRaised(unpadded.exc)
                   ELSE QtyReturned(BitsToNat(unpadded.value)))
    ELSE IF proof._cached_qty # None THEN QtyReturned(proof._cached_qty)
    ELSE calc_qty(proof)

\* the proof after calc_qty ran: it read the qty of the prevout proofs in
\* the order of the items, up to the first that raised
RECURSIVE ReadQty(_), CalcQtyReads(_)
CalcQtyReads(proof) ==
    LET order == ItemsOrder(DOMAIN proof.prevout_proofs)
        raised == {i \in 1..Len(order) : qty(proof.prevout_proofs[order[i]]).exc # "none"}
        read == {order[i] : i \in {k \in 1..Len(order) : \A b \in raised : k <= b}}
    IN  [proof EXCEPT
            !.prevout_proofs = [o \in DOMAIN proof.prevout_proofs |->
                                   IF o \in read THEN ReadQty(proof.prevout_proofs[o])
                                   ELSE proof.prevout_proofs[o]]]

\* the proof after its qty was read: "_cached_qty" is set when calc_qty
\* returned
ReadQty(proof) ==
    IF proof.kind # "Transferred" THEN proof
    ELSE IF proof._cached_qty # None THEN proof
    ELSE Eval(calc_qty(proof), LAMBDA r :
            [CalcQtyReads(proof) EXCEPT
                !._cached_qty = IF r.exc = "none" THEN r.value ELSE None])

\* prevout_proofs.values()
PrevoutProofValues(proof) ==
    LET order == ItemsOrder(DOMAIN proof.prevout_proofs)
    IN  [i \in 1..Len(order) |-> proof.prevout_proofs[order[i]]]

\* _validate() of the three classes: the exception raised, if any, the
\* proofs the call gave to validate() before it, and whether it ran calc_qty
_validate(proof) ==
    IF proof.kind = "GenesisOutPoint"
    THEN [exc |-> IF proof.outpoint \notin DOMAIN proof.colordef.genesis_outpoints
                  THEN "ColorProofValidationError" ELSE "none",
          yielded |-> <<>>, calculated |-> FALSE]
    ELSE IF proof.kind = "GenesisScriptPubKey"
    THEN [exc |-> IF ~ (0 <= proof.n /\ proof.n < Len(proof.tx.vout))
                  THEN "ColorProofValidationError"
                  ELSE IF proof.tx.vout[proof.n + 1].scriptPubKey
                              \notin proof.colordef.genesis_scriptPubKeys
                  THEN "ColorProofValidationError"
                  ELSE "none",
          yielded |-> <<>>, calculated |-> FALSE]
    ELSE [exc |-> IF ~ (0 <= proof.n /\ proof.n < Len(proof.tx.vout))
                  THEN "ColorProofValidationError"
                  ELSE calc_qty(proof).exc,
          yielded |-> PrevoutProofValues(proof),
          calculated |-> 0 <= proof.n /\ proof.n < Len(proof.tx.vout)]

\* A proof below the root is named by its path: the prevouts from the root
\* down to it.  ProofAt is the proof at a path, WithProofAt the root with
\* the proof at a path replaced.
RECURSIVE ProofAt(_, _), WithProofAt(_, _, _)
ProofAt(root, path) ==
    IF path = <<>> THEN root
    ELSE ProofAt(root.prevout_proofs[Head(path)], Tail(path))

WithProofAt(root, path, proof) ==
    IF path = <<>> THEN proof
    ELSE [root EXCEPT !.prevout_proofs[Head(path)] = WithProofAt(@, Tail(path), proof)]

\* proof._validate() for the proof at a path below root: what the call
\* did, the root after it, and the paths of the proofs it gave to validate()
ValidateAt(root, path) ==
    LET proof == ProofAt(root, path)
        r == _validate(proof)
        order == IF proof.kind = "Transferred"
                 THEN ItemsOrder(DOMAIN proof.prevout_proofs) ELSE <<>>
    IN  [exc |-> r.exc,
         proof |-> IF r.calculated
                   THEN WithProofAt(root, path, CalcQtyReads(proof))
                   ELSE root,
         yielded |-> [k \in 1..Len(order) |-> path \o <<order[k]>>]]

\* "for proof in remaining_proofs: next_remaining_proofs.extend(proof._validate())"
\* from proof i on; remaining_proofs holds the paths of the proofs
RECURSIVE ValidateLevel(_, _, _, _)
ValidateLevel(root, remaining_proofs, i, next_remaining_proofs) ==
    IF i > Len(remaining_proofs)
    THEN [exc |-> "none", proof |-> root, next_remaining_proofs |-> next_remaining_proofs]
    ELSE Eval(ValidateAt(root, remaining_proofs[i]), LAMBDA r :
            IF r.exc # "none"
            THEN [exc |-> r.exc, proof |-> r.proof,
                  next_remaining_proofs |-> next_remaining_proofs]
            ELSE ValidateLevel(r.proof, remaining_proofs, i + 1,
                               next_remaining_proofs \o r.yielded))

\* "while remaining_proofs" of validate()
RECURSIVE ValidateLoop(_, _)
ValidateLoop(root, remaining_proofs) ==
    IF remaining_proofs = <<>> THEN [exc |-> "none", proof |-> root]
    ELSE Eval(ValidateLevel(root, remaining_proofs, 1, <<>>), LAMBDA level :
            IF level.exc # "none" THEN [exc |-> level.exc, proof |-> level.proof]
            ELSE ValidateLoop(level.proof, level.next_remaining_proofs))

\* ColorProof.validate(): exc is "none" when it returns, else the exception
\* raised; proof is the proof as the call left it
validate(proof) == ValidateLoop(proof, << <<>> >>)

(***************************************************************************)
(* The merklized radix tree (merkleradixtree.py).  Nodes are immutable     *)
(* objects: the heap is the sequence of the nodes allocated so far, a node *)
(* reference is the node's index in the heap, and the one Empty node has   *)
(* the fixed reference EmptyNode.  A key is KeyBits bits, most significant *)
(* bit first; a value is a small number.                                   *)
(***************************************************************************)
EmptyNode == 0

LeafNode(key, value) ==
    [kind |-> "leaf", key |-> key, value |-> value,
     left |-> EmptyNode, right |-> EmptyNode]

InnerNode(left, right) ==
    [kind |-> "inner", key |-> <<>>, value |-> 0, left |-> left, right |-> right]

\* isinstance(node, EmptyNodeClass / LeafNodeClass / InnerNodeClass)
NodeKind(heap, node) == IF node = EmptyNode THEN "empty" ELSE heap[node].kind

\* the outcome of a tree operation: the heap after it and the node returned
TreeReturned(heap, node) == [exc |-> "none", heap |-> heap, node |-> node]
TreeRaised(heap, e) == [exc |-> e, heap |-> heap, node |-> EmptyNode]

\* MerkleRadixTreeLeafNode(key, value)
LeafNodeClass(heap, key, value) ==
    IF Len(key) # KeyBits THEN TreeRaised(heap, "ValueError")
    ELSE TreeReturned(Append(heap, LeafNode(key, value)), Len(heap) + 1)

\* an inner node made of whatever the two children are
InnerNodeAlways(heap, left, right) ==
    TreeReturned(Append(heap, InnerNode(left, right)), Len(heap) + 1)

\* MerkleRadixTreeInnerNode(left, right): collapses to a child, or allocates
InnerNodeClass(heap, left, right) ==
    IF NodeKind(heap, left) = "empty" /\ NodeKind(heap, right) \in {"empty", "leaf"}
    THEN TreeReturned(heap, right)
    ELSE IF NodeKind(heap, right) = "empty" /\ NodeKind(heap, left) \in {"empty", "leaf"}
    THEN TreeReturned(heap, left)
    ELSE TreeReturned(Append(heap, InnerNode(left, right)), Len(heap) + 1)

\* key[depth // 8] raises IndexError from depth KEYSIZE * 8 on
KeyBitInRange(key, depth) == depth < Len(key)

\* key[depth // 8] >> (7 - depth % 8) & 0b1
KeyBit(key, depth) == key[depth + 1]

\* the for loop of from_leaf_nodes: the first exception it raises, if any
LeafScan(heap, leaf_nodes, depth) ==
    IF leaf_nodes = <<>> THEN "none"
    ELSE IF ~ KeyBitInRange(heap[leaf_nodes[1]].key, depth) THEN "IndexError"
    ELSE IF \E i \in 2..Len(leaf_nodes) :
                heap[leaf_nodes[i - 1]].key = heap[leaf_nodes[i]].key
    THEN "KeyError"
    ELSE "none"

RECURSIVE from_leaf_nodes(_, _, _)
from_leaf_nodes(heap, leaf_nodes, depth) ==
    LET IsLeft(node) == KeyBit(heap[node].key, depth) = 1
        IsRight(node) == KeyBit(heap[node].key, depth) = 0
        scan == LeafScan(heap, leaf_nodes, depth)
    IN  IF scan # "none" THEN TreeRaised(heap, scan)
        ELSE IF Len(leaf_nodes) = 0 THEN TreeReturned(heap, EmptyNode)
        ELSE IF Len(leaf_nodes) = 1 THEN TreeReturned(heap, leaf_nodes[1])
        ELSE LET left == from_leaf_nodes(heap, SelectSeq(leaf_nodes, IsLeft), depth + 1)
             IN  IF left.exc # "none" THEN left
                 ELSE LET right == from_leaf_nodes(left.heap,
                                       SelectSeq(leaf_nodes, IsRight), depth + 1)
                      IN  IF right.exc # "none" THEN right
                          ELSE InnerNodeClass(right.heap, left.node, right.node)

\* the generator of from_items: one leaf node per item, in order
RECURSIVE LeafNodes(_, _, _)
LeafNodes(heap, items, leaf_nodes) ==
    IF items = <<>> THEN [exc |-> "none", heap |-> heap, leaf_nodes |-> leaf_nodes]
    ELSE LET leaf == LeafNodeClass(heap, Head(items)[1], Head(items)[2])
         IN  IF leaf.exc # "none"
             THEN [exc |-> leaf.exc, heap |-> heap, leaf_nodes |-> leaf_nodes]
             ELSE LeafNodes(leaf.heap, Tail(items), Append(leaf_nodes, leaf.node))

\* MerkleRadixTreeNode.from_items(items); a failed call leaves no node behind
from_items(heap, items) ==
    LET leaves == LeafNodes(heap, items, <<>>)
    IN  IF leaves.exc # "none" THEN TreeRaised(heap, leaves.exc)
        ELSE LET r == from_leaf_nodes(leaves.heap, leaves.leaf_nodes, 0)
             IN  IF r.exc # "none" THEN TreeRaised(heap, r.exc) ELSE r

\* _get of the three node classes
RECURSIVE _get(_, _, _, _)
_get(heap, node, key, depth) ==
    IF NodeKind(heap, node) = "empty" THEN Raised("KeyError")
    ELSE IF NodeKind(heap, node) = "leaf"
    THEN (IF key # heap[node].key THEN Raised("KeyError")
          ELSE Returned(heap[node].value))
    ELSE IF ~ KeyBitInRange(key, depth) THEN Raised("IndexError")
    ELSE IF KeyBit(key, depth) = 1 THEN _get(heap, heap[node].left, key, depth + 1)
    ELSE _get(heap, heap[node].right, key, depth + 1)

\* _set of the three node classes
RECURSIVE _set(_, _, _, _)
_set(heap, node, leaf_node, depth) ==
    IF NodeKind(heap, node) = "empty" THEN TreeReturned(heap, leaf_node)
    ELSE IF NodeKind(heap, node) = "leaf"
    THEN (IF heap[leaf_node].key = heap[node].key THEN TreeReturned(heap, leaf_node)
          ELSE from_leaf_nodes(heap, <<node, leaf_node>>, depth))
    ELSE IF ~ KeyBitInRange(heap[leaf_node].key, depth) THEN TreeRaised(heap, "IndexError")
    ELSE IF KeyBit(heap[leaf_node].key, depth) = 1
    THEN LET new_left == _set(heap, heap[node].left, leaf_node, depth + 1)
         IN  IF new_left.exc # "none" THEN new_left
             ELSE InnerNodeClass(new_left.heap, new_left.node, heap[node].right)
    ELSE LET new_right == _set(heap, heap[node].right, leaf_node, depth + 1)
         IN  IF new_right.exc # "none" THEN new_right
             ELSE InnerNodeClass(new_right.heap, heap[node].left, new_right.node)

\* _pop of the three node classes
RECURSIVE _pop(_, _, _, _)
_pop(heap, node, key, depth) ==
    IF NodeKind(heap, node) = "empty" THEN TreeRaised(heap, "KeyError")
    ELSE IF NodeKind(heap, node) = "leaf"
    THEN (IF key # heap[node].key THEN TreeRaised(heap, "KeyError")
          ELSE TreeReturned(heap, EmptyNode))
    ELSE IF ~ KeyBitInRange(key, depth) THEN TreeRaised(heap, "IndexError")
    ELSE IF KeyBit(key, depth) = 1
    THEN LET new_left == _pop(heap, heap[node].left, key, depth + 1)
         IN  IF new_left.exc # "none" THEN new_left
             ELSE InnerNodeClass(new_left.heap, new_left.node, heap[node].right)
    ELSE LET new_right == _pop(heap, heap[node].right, key, depth + 1)
         IN  IF new_right.exc # "none" THEN new_right
             ELSE InnerNodeClass(new_right.heap, heap[node].left, new_right.node)

\* a lookup that takes the value of a leaf without comparing the keys
getitemAnyLeaf(heap, node, key) ==
    IF Len(key) # KeyBits THEN Raised("ValueError")
    ELSE IF NodeKind(heap, node) = "leaf" THEN Returned(heap[node].value)
    ELSE _get(heap, node, key, 0)

\* node[key]
getitem(heap, node, key) ==
    IF Len(key) # KeyBits THEN Raised("ValueError") ELSE _get(heap, node, key, 0)

\* a set that overwrites the value of the leaf that holds the key
setInPlace(heap, node, key, value) ==
    IF Len(key) # KeyBits THEN TreeRaised(heap, "ValueError")
    ELSE IF NodeKind(heap, node) = "leaf" /\ heap[node].key = key
    THEN TreeReturned([heap EXCEPT ![node].value = value], node)
    ELSE LET leaf_node == LeafNodeClass(heap, key, value)
             r == _set(leaf_node.heap, node, leaf_node.node, 0)
         IN  IF r.exc # "none" THEN TreeRaised(heap, r.exc) ELSE r

\* node.set(key, value); a failed call leaves no node behind
set(heap, node, key, value) ==
    IF Len(key) # KeyBits THEN TreeRaised(heap, "ValueError")
    ELSE LET leaf_node == LeafNodeClass(heap, key, value)
             r == _set(leaf_node.heap, node, leaf_node.node, 0)
         IN  IF r.exc # "none" THEN TreeRaised(heap, r.exc) ELSE r

\* node.pop(key); a failed call leaves no node behind
pop(heap, node, key) ==
    IF Len(key) # KeyBits THEN TreeRaised(heap, "ValueError")
    ELSE LET r == _pop(heap, node, key, 0)
         IN  IF r.exc # "none" THEN TreeRaised(heap, r.exc) ELSE r

\* GetHash(): the hash is collision free, so a digest is the term of the
\* data that was hashed, with the digests of the children inside it
RECURSIVE GetHash(_, _)
GetHash(heap, node) ==
    IF NodeKind(heap, node) = "empty" THEN [tag |-> 3]
    ELSE IF NodeKind(heap, node) = "leaf"
    THEN [value |-> heap[node].value, key |-> heap[node].key, tag |-> 2]
    ELSE [left |-> GetHash(heap, heap[node].left),
          right |-> GetHash(heap, heap[node].right), tag |-> 1]

\* the structure of the tree under a node, without the references
RECURSIVE Structure(_, _)
Structure(heap, node) ==
    IF NodeKind(heap, node) = "empty" THEN <<"empty">>
    ELSE IF NodeKind(heap, node) = "leaf"
    THEN <<"leaf", heap[node].key, heap[node].value>>
    ELSE <<"inner", Structure(heap, heap[node].left), Structure(heap, heap[node].right)>>

\* the references of the nodes of the tree under a node
RECURSIVE Nodes(_, _)
Nodes(heap, node) ==
    IF NodeKind(heap, node) = "inner"
    THEN {node} \cup Nodes(heap, heap[node].left) \cup Nodes(heap, heap[node].right)
    ELSE {node}

(***************************************************************************)
(* The radix tree harness: a tree is built by from_items, set and pop, as  *)
(* test_random_sets_deletes does, with the contents it should have kept    *)
(* beside it.                                                              *)
(***************************************************************************)
\* the key whose bits are the number n, most significant bit first
RECURSIVE KeyOf(_, _)
KeyOf(n, width) ==
    IF width = 0 THEN <<>> ELSE Append(KeyOf(n \div 2, width - 1), n % 2)

TreeKeys == {KeyOf(n, KeyBits) : n \in {0, 1, 2, 6}}
TreeValues == {1, 2}
TreeItems == TreeKeys \X TreeValues

TreeIdle == [pc |-> "idle"]

TreeInit ==
    tree = [heap |-> <<>>, tip |-> EmptyNode, t1 |-> EmptyNode, op |-> "init",
            key |-> <<>>, value |-> 0, items |-> <<>>, exc |-> "none",
            contents |-> {}, nops |-> 0, from_empty |-> TRUE]

\* the contents after key is set to value
ContentsSet(contents, key, value) ==
    {item \in contents : item[1] # key} \cup {<<key, value>>}

\* the contents after key is removed
ContentsPop(contents, key) == {item \in contents : item[1] # key}

\* the orders in which the items of a sequence can be given
Orders(items) ==
    {[i \in 1..Len(items) |-> items[p[i]]] : p \in Permutations(1..Len(items))}

\* no two items of the sequence have the same key
DistinctKeys(items) ==
    \A i, j \in 1..Len(items) : items[i][1] = items[j][1] => i = j

\* the subtrees of the tree under node that hang off the path to key
RECURSIVE OffPath(_, _, _, _)
OffPath(heap, node, key, depth) ==
    IF NodeKind(heap, node) # "inner" \/ ~ KeyBitInRange(key, depth) THEN {}
    ELSE IF KeyBit(key, depth) = 1
    THEN {heap[node].right} \cup OffPath(heap, heap[node].left, key, depth + 1)
    ELSE {heap[node].left} \cup OffPath(heap, heap[node].right, key, depth + 1)

\* tip = MerkleRadixTreeNode.from_items(items)
TreeFromItems ==
    /\ tree.op # "getitem"
    /\ tree.nops < MaxTreeOps
    /\ \E n \in 0..(MaxTreeOps - tree.nops) : \E items \in [1..n -> TreeItems] :
         \E r \in {from_items(tree.heap, items)} :
            tree' = [heap |-> r.heap,
                     tip |-> IF r.exc = "none" THEN r.node ELSE tree.tip,
                     t1 |-> tree.tip, op |-> "from_items",
                     key |-> <<>>, value |-> 0, items |-> items, exc |-> r.exc,
                     contents |-> IF r.exc = "none" THEN ItemSet(items)
                                  ELSE tree.contents,
                     nops |-> tree.nops + (IF n = 0 THEN 1 ELSE n),
                     from_empty |-> FALSE]
    /\ UNCHANGED <<pad, kern, db, prf, dag, wal>>

\* tip = tip.set(key, value)
TreeSet ==
    /\ tree.op # "getitem"
    /\ tree.nops < MaxTreeOps
    /\ \E key \in TreeKeys, value \in TreeValues :
         \E r \in {set(tree.heap, tree.tip, key, value)} :
            tree' = [heap |-> r.heap,
                     tip |-> IF r.exc = "none" THEN r.node ELSE tree.tip,
                     t1 |-> tree.tip, op |-> "set",
                     key |-> key, value |-> value, items |-> <<>>, exc |-> r.exc,
                     contents |-> IF r.exc = "none"
                                  THEN ContentsSet(tree.contents, key, value)
                                  ELSE tree.contents,
                     nops |-> tree.nops + 1, from_empty |-> tree.from_empty]
    /\ UNCHANGED <<pad, kern, db, prf, dag, wal>>

\* tip = tip.pop(key)
TreePop ==
    /\ tree.op # "getitem"
    /\ tree.nops < MaxTreeOps
    /\ \E key \in TreeKeys :
         \E r \in {pop(tree.heap, tree.tip, key)} :
            tree' = [heap |-> r.heap,
                     tip |-> IF r.exc = "none" THEN r.node ELSE tree.tip,
                     t1 |-> tree.tip, op |-> "pop",
                     key |-> key, value |-> 0, items |-> <<>>, exc |-> r.exc,
                     contents |-> IF r.exc = "none"
                                  THEN ContentsPop(tree.contents, key)
                                  ELSE tree.contents,
                     nops |-> tree.nops + 1, from_empty |-> tree.from_empty]
    /\ UNCHANGED <<pad, kern, db, prf, dag, wal>>

\* every key of full width
TreeAllKeys == {KeyOf(n, KeyBits) : n \in 0..(2 ^ KeyBits - 1)}

\* tip[key], on a tree of at most MaxLookupOps items and operations: the
\* tree is not changed, and the harness takes the lookup as the last call
\* made on the tree
TreeGetItem ==
    /\ tree.op # "getitem"
    /\ tree.nops <= MaxLookupOps
    /\ \E key \in TreeAllKeys :
         \E r \in {getitem(tree.heap, tree.tip, key)} :
            tree' = [tree EXCEPT !.t1 = tree.tip, !.op = "getitem", !.key = key,
                                 !.value = IF r.exc = "none" THEN r.value ELSE 0,
                                 !.items = <<>>, !.exc = r.exc]
    /\ UNCHANGED <<pad, kern, db, prf, dag, wal>>

(***************************************************************************)
(* ColorProofDb (db.py).  The dicts of sets are sets of entries:           *)
(* genesis_outpoints holds <<outpoint, colordef>>, genesis_scriptPubKeys    *)
(* holds <<scriptPubKey, colordef>> and colored_outpoints holds            *)
(* [outpoint, colordef, proof].  A transaction in the database never       *)
(* changes, so a cached qty is the qty calc_qty gives and the proofs of    *)
(* the database are kept with _cached_qty unset.                           *)
(***************************************************************************)
\* ColorProofDb()
ColorProofDb ==
    [colordefs |-> {}, genesis_outpoints |-> {}, genesis_scriptPubKeys |-> {},
     colored_outpoints |-> {}]

\* a call that returned, or raised, and the database it left
DbReturned(self) == [exc |-> "none", db |-> self]
DbRaised(e, self) == [exc |-> e, db |-> self]

\* the equality of two proofs as members of a set: proofs of the same
\* content have the same hash and are one member
SameProof(a, b) == a = b

\* an add that takes out of the set a proof that is in it already
AddProofToggling(self, outpoint, colordef, colorproof) ==
    LET entry == [outpoint |-> outpoint, colordef |-> colordef, proof |-> colorproof]
    IN  [self EXCEPT !.colored_outpoints =
            IF entry \in @ THEN @ \ {entry} ELSE @ \cup {entry}]

\* "colored_outpoints.setdefault(outpoint, {}).setdefault(colordef, set()).add(colorproof)"
AddProof(self, outpoint, colordef, colorproof) ==
    IF \E e \in self.colored_outpoints :
          /\ e.outpoint = outpoint
          /\ e.colordef = colordef
          /\ SameProof(e.proof, colorproof)
    THEN self
    ELSE [self EXCEPT !.colored_outpoints =
            @ \cup {[outpoint |-> outpoint, colordef |-> colordef,
                     proof |-> colorproof]}]

\* colored_outpoints[outpoint][colordef], empty when a key is missing
ProofsAt(self, outpoint, colordef) ==
    {e.proof : e \in {x \in self.colored_outpoints :
                         x.outpoint = outpoint /\ x.colordef = colordef}}

\* an addcolordef that indexes the colordef and stores no genesis proof
addcolordefUnproven(self, colordef) ==
    IF colordef \in self.colordefs THEN self
    ELSE [self EXCEPT
            !.colordefs = @ \cup {colordef},
            !.genesis_outpoints =
                @ \cup {<<o, colordef>> : o \in DOMAIN colordef.genesis_outpoints},
            !.genesis_scriptPubKeys =
                @ \cup {<<s, colordef>> : s \in colordef.genesis_scriptPubKeys}]

\* ColorProofDb.addcolordef(colordef).  Its assertions hold in every call:
\* is_pruned() is False, and the reverse maps hold only colordefs that are
\* in colordefs, which the colordef given is not at that point.
addcolordef(self, colordef) ==
    IF colordef \in self.colordefs THEN self
    ELSE [self EXCEPT
            !.colordefs = @ \cup {colordef},
            !.genesis_outpoints =
                @ \cup {<<o, colordef>> : o \in DOMAIN colordef.genesis_outpoints},
            !.colored_outpoints =
                @ \cup {[outpoint |-> o, colordef |-> colordef,
                         proof |-> GenesisOutPointColorProof(colordef, o)] :
                            o \in DOMAIN colordef.genesis_outpoints},
            !.genesis_scriptPubKeys =
                @ \cup {<<s, colordef>> : s \in colordef.genesis_scriptPubKeys}]

\* the assertions of addcolordef without the return that comes before them
AssertNotIndexed(self, colordef) ==
    IF \/ \E o \in DOMAIN colordef.genesis_outpoints :
             <<o, colordef>> \in self.genesis_outpoints
       \/ \E s \in colordef.genesis_scriptPubKeys :
             <<s, colordef>> \in self.genesis_scriptPubKeys
    THEN "AssertionError"
    ELSE "none"

\* the exception addcolordef(colordef) raises, "none" when it returns:
\* "assert not colordef.is_pruned()", "if colordef in self.colordefs: return",
\* then "assert colordef not in outpoint_colordef_set" and "assert colordef
\* not in scriptPubKey_colordef_set"
addcolordefRaises(self, colordef) ==
    IF colordef \in self.colordefs THEN "none"
    ELSE AssertNotIndexed(self, colordef)

\* a loop over the prevout proofs that adds none of them
AddPrevoutProofsSkipped(self, prevout_proofs, i) == self

\* ColorProofDb.addcolorproof(colorproof), the prevout proofs first
RECURSIVE addcolorproof(_, _), AddPrevoutProofs(_, _, _)
AddPrevoutProofs(self, prevout_proofs, i) ==
    IF i > Len(prevout_proofs) THEN self
    ELSE AddPrevoutProofs(addcolorproof(self, prevout_proofs[i]), prevout_proofs, i + 1)

addcolorproof(self, colorproof) ==
    LET self1 == addcolordef(self, colorproof.colordef)
        self2 == IF colorproof.kind = "Transferred"
                 THEN AddPrevoutProofs(self1, PrevoutProofValues(colorproof), 1)
                 ELSE self1
    IN  AddProof(self2, outpoint_of(colorproof), colorproof.colordef, colorproof)

\* a key that puts transferred proofs first and genesis outpoint proofs last
proof_priority_reversed(proof) ==
    IF proof.kind = "GenesisOutPoint" THEN 2
    ELSE IF proof.kind = "GenesisScriptPubKey" THEN 1
    ELSE IF proof.kind = "Transferred" THEN 0
    ELSE 3

\* proof_priority_key(proof)
proof_priority_key(proof) ==
    IF proof.kind = "GenesisOutPoint" THEN 0
    ELSE IF proof.kind = "GenesisScriptPubKey" THEN 1
    ELSE IF proof.kind = "Transferred" THEN 2
    ELSE 3

\* "next(iter(sorted(prevout_proof_set, key=proof_priority_key)))" when the
\* set iterates in the given order: the first proof of the least key
BestProof(order) ==
    order[CHOOSE i \in 1..Len(order) :
            /\ \A j \in 1..Len(order) :
                  proof_priority_key(order[i]) <= proof_priority_key(order[j])
            /\ \A j \in 1..(i - 1) :
                  proof_priority_key(order[j]) > proof_priority_key(order[i])]

\* a comparison that takes any two quantities for equal
QtyEqualAlways(prevout_qty, best_qty) == TRUE

\* "prevout_proof.qty == best_proof.qty"
QtyEqual(prevout_qty, best_qty) == prevout_qty = best_qty

\* an assertion that passes whatever the quantities are
AssertQtysEqualPassing(order, best_proof, i) == "none"

\* "assert all(prevout_proof.qty == best_proof.qty for prevout_proof in
\* prevout_proof_set)" from proof i of the iteration on: "none" when the
\* assertion passes, else the exception raised
RECURSIVE AssertQtysEqual(_, _, _)
AssertQtysEqual(order, best_proof, i) ==
    IF i > Len(order) THEN "none"
    ELSE LET prevout_qty == qty(order[i])
             best_qty == qty(best_proof)
         IN  IF prevout_qty.exc # "none" THEN prevout_qty.exc
             ELSE IF best_qty.exc # "none" THEN best_qty.exc
             ELSE IF ~ QtyEqual(prevout_qty.value, best_qty.value) THEN "AssertionError"
             ELSE AssertQtysEqual(order, best_proof, i + 1)

\* the prevouts of tx.vin, each once, in input order
RECURSIVE Prevouts(_, _)
Prevouts(tx, i) ==
    IF i > Len(tx.vin) THEN <<>>
    ELSE LET rest == Prevouts(tx, i + 1)
         IN  IF \E k \in 1..(i - 1) : tx.vin[k].prevout = tx.vin[i].prevout
             THEN rest ELSE <<tx.vin[i].prevout>> \o rest

\* prevout_proof_sets_by_colordef[colordef][outpoint]: the proofs of the
\* colordef and the outpoint among those stored at the prevouts of tx
PrevoutProofSet(self, tx, colordef, outpoint) ==
    {e.proof : e \in {x \in self.colored_outpoints :
                         /\ x.outpoint \in ItemSet(Prevouts(tx, 1))
                         /\ x.proof.colordef = colordef
                         /\ outpoint_of(x.proof) = outpoint}}

\* the ways a family of disjoint sets can iterate: each way holds, for
\* every set of the family, one sequence of the set's members
RECURSIVE SetOrders(_)
SetOrders(sets) ==
    IF sets = {} THEN {{}}
    ELSE LET first == CHOOSE s \in sets : TRUE
         IN  {{order} \cup rest :
                 order \in SeqsOf(first), rest \in SetOrders(sets \ {first})}

\* "for prevout_proof in prevout_proof_set": the sequence of the set in orders
IterationOf(prevout_proof_set, orders) ==
    CHOOSE order \in orders : ItemSet(order) = prevout_proof_set

\* "for outpoint, prevout_proof_set in prevout_proof_sets_by_outpoint.items()"
\* from outpoint i on: the prevout_proofs dict the loop ends with, or the
\* exception it raises, when the sets iterate as orders says
RECURSIVE PickProofs(_, _, _, _, _, _, _)
PickProofs(self, tx, colordef, outpoints, i, prevout_proofs, orders) ==
    IF i > Len(outpoints) THEN [exc |-> "none", prevout_proofs |-> prevout_proofs]
    ELSE LET order == IterationOf(
                          PrevoutProofSet(self, tx, colordef, outpoints[i]), orders)
             best_proof == BestProof(order)
             checked == AssertQtysEqual(order, best_proof, 1)
         IN  IF checked # "none"
             THEN [exc |-> checked, prevout_proofs |-> prevout_proofs]
             ELSE PickProofs(self, tx, colordef, outpoints, i + 1,
                             (outpoints[i] :> best_proof) @@ prevout_proofs, orders)

\* "for i, qty in enumerate(colordef.apply_kernel(tx, color_qty_by_outpoint))"
\* from output i on
RECURSIVE AddTransferred(_, _, _, _, _, _)
AddTransferred(self, colordef, tx, prevout_proofs, color_qtys_out, i) ==
    IF i >= Len(color_qtys_out) THEN DbReturned(self)
    ELSE IF color_qtys_out[i + 1] = None
    THEN AddTransferred(self, colordef, tx, prevout_proofs, color_qtys_out, i + 1)
    ELSE LET outpoint == COutPoint(TxHash(tx), i)
             colorproof == TransferredColorProof(colordef, outpoint, tx, prevout_proofs)
             proof_qty == qty(colorproof)
         IN  IF proof_qty.exc # "none" THEN DbRaised(proof_qty.exc, self)
             ELSE IF proof_qty.value # color_qtys_out[i + 1]
             THEN DbRaised("AssertionError", self)
             ELSE AddTransferred(AddProof(self, outpoint, colordef, colorproof),
                                 colordef, tx, prevout_proofs, color_qtys_out, i + 1)

\* the body of "for colordef, prevout_proof_sets_by_outpoint in
\* prevout_proof_sets_by_colordef.items()" for one colordef: its outcome
AddTxColordef(self, tx, colordef, orders) ==
    LET outpoints == SelectSeq(Prevouts(tx, 1),
                         LAMBDA o : PrevoutProofSet(self, tx, colordef, o) # {})
    IN  Eval(PickProofs(self, tx, colordef, outpoints, 1, <<>>, orders),
             LAMBDA picked :
                IF picked.exc # "none" THEN DbRaised(picked.exc, self)
                ELSE LET color_qty_by_outpoint ==
                             [o \in DOMAIN picked.prevout_proofs |->
                                 qty(picked.prevout_proofs[o]).value]
                         color_qtys_out ==
                             apply_kernel(colordef, tx, color_qty_by_outpoint)
                     IN  IF color_qtys_out.exc # "none"
                         THEN DbRaised(color_qtys_out.exc, self)
                         ELSE AddTransferred(self, colordef, tx,
                                             picked.prevout_proofs,
                                             color_qtys_out.value, 0))

\* the loop over the colordefs, from colordef i of the dict's order on
RECURSIVE AddTxColordefs(_, _, _, _, _)
AddTxColordefs(self, tx, colordefs, i, orders) ==
    IF i > Len(colordefs) THEN DbReturned(self)
    ELSE Eval(AddTxColordef(self, tx, colordefs[i], orders),
              LAMBDA r : IF r.exc # "none" THEN r
                         ELSE AddTxColordefs(r.db, tx, colordefs, i + 1, orders))

\* script proofs made for every genesis script of the database, whatever the
\* script of the output
AddScriptProofsAnyScript(self, tx) ==
    [self EXCEPT !.colored_outpoints =
        @ \cup UNION {
            {[outpoint |-> COutPoint(TxHash(tx), i - 1), colordef |-> e[2],
              proof |-> GenesisScriptPubKeyColorProof(
                            e[2], COutPoint(TxHash(tx), i - 1), tx)] :
                e \in self.genesis_scriptPubKeys}
            : i \in 1..Len(tx.vout)}]

\* "Create genesis scriptPubKey proofs for the txouts"
AddScriptProofs(self, tx) ==
    [self EXCEPT !.colored_outpoints =
        @ \cup UNION {
            {[outpoint |-> COutPoint(TxHash(tx), i - 1), colordef |-> e[2],
              proof |-> GenesisScriptPubKeyColorProof(
                            e[2], COutPoint(TxHash(tx), i - 1), tx)] :
                e \in {x \in self.genesis_scriptPubKeys :
                          x[1] = tx.vout[i].scriptPubKey}}
            : i \in 1..Len(tx.vout)}]

\* the ways the dict prevout_proof_sets_by_colordef and the sets in it can
\* iterate in addtx(tx): any order of the colordefs, any order of each set
AddTxIterations(self, tx) ==
    LET self1 == AddScriptProofs(self, tx)
        colordefs == {e.proof.colordef :
                         e \in {x \in self1.colored_outpoints :
                                   x.outpoint \in ItemSet(Prevouts(tx, 1))}}
        sets == {PrevoutProofSet(self1, tx, colordef, outpoint) :
                    colordef \in colordefs, outpoint \in ItemSet(Prevouts(tx, 1))}
    IN  {[colordefs |-> order, sets |-> orders] :
            order \in SeqsOf(colordefs), orders \in SetOrders(sets \ {{}})}

\* no iteration: a call that walks no dict or set of proofs
NoIteration == [colordefs |-> <<>>, sets |-> {}]

\* ColorProofDb.addtx(tx) when the dict and the sets iterate as iteration says
addtxIterating(self, tx, iteration) ==
    AddTxColordefs(AddScriptProofs(self, tx), tx, iteration.colordefs, 1,
                   iteration.sets)

\* ColorProofDb.addtx(tx): every outcome the call can have
addtx(self, tx) ==
    {addtxIterating(self, tx, iteration) : iteration \in AddTxIterations(self, tx)}

(***************************************************************************)
(* calc_state_hash (db.py).  A digest is a number below HashModulus; the   *)
(* digest of data depends on the order of the data.  A dict or a set       *)
(* iterates in any order, so hash_set and hash_dict are given their        *)
(* members as a sequence and calc_state_hash has one outcome for each way  *)
(* its dicts and sets can iterate.                                         *)
(***************************************************************************)
HashModulus == 65521

\* "midstate.update(...)" for the numbers of data from position i on
RECURSIVE Sha256Update(_, _, _)
Sha256Update(midstate, data, i) ==
    IF i > Len(data) THEN midstate
    ELSE Sha256Update((midstate * 31 + data[i] + 1) % HashModulus, data, i + 1)

\* hashlib.sha256() fed the numbers of data, then digest()
Sha256(data) == Sha256Update(7, data, 1)

\* Hash(outpoint.serialize())
OutPointHash(outpoint) == Sha256(<<outpoint.hash, outpoint.n>>)

\* Hash(scriptPubKey)
ScriptHash(scriptPubKey) == Sha256(<<scriptPubKey>>)

\* the hash of a merbinner tree: of the hashes of its items, which come in
\* the order of their keys
MerbinnerHash(item_hashes) == Sha256(item_hashes)

\* colordef.hash: version, stegkey, genesis outpoints, genesis scripts
ColorDefHash(colordef) ==
    LET outpoints == ItemsOrder(DOMAIN colordef.genesis_outpoints)
        scripts == colordef.genesis_scriptPubKeys
    IN  Sha256(<<1, colordef.stegkey,
                 MerbinnerHash([i \in 1..Len(outpoints) |->
                     Sha256(<<OutPointHash(outpoints[i]),
                              colordef.genesis_outpoints[outpoints[i]]>>)]),
                 MerbinnerHash([i \in 1..Cardinality(scripts) |->
                     ScriptHash(CHOOSE s \in scripts :
                                   Cardinality({t \in scripts : t < s}) = i - 1)])>>)

\* colorproof.hash of a proof whose qty does not raise: type, version,
\* colordef, qty, then what the class writes
RECURSIVE ProofHash(_)
ProofHash(proof) ==
    IF proof.kind = "GenesisOutPoint"
    THEN Sha256(<<1, 1, ColorDefHash(proof.colordef), qty(proof).value,
                  OutPointHash(proof.outpoint)>>)
    ELSE IF proof.kind = "GenesisScriptPubKey"
    THEN Sha256(<<2, 1, ColorDefHash(proof.colordef), qty(proof).value,
                  proof.n, TxHash(proof.tx)>>)
    ELSE LET outpoints == ItemsOrder(DOMAIN proof.prevout_proofs)
         IN  Sha256(<<3, 1, ColorDefHash(proof.colordef), qty(proof).value,
                      proof.n, TxHash(proof.tx),
                      MerbinnerHash([i \in 1..Len(outpoints) |->
                          Sha256(<<OutPointHash(outpoints[i]),
                                   ProofHash(proof.prevout_proofs[outpoints[i]])>>)])>>)

\* the order of Python on tuples of numbers: a < b
TupleLess(a, b) ==
    \E i \in 1..Len(a) :
        /\ i <= Len(b)
        /\ \A j \in 1..(i - 1) : a[j] = b[j]
        /\ a[i] < b[i]

\* a sequence left in the order it came in
Unsorted(items) == items

\* sorted(items) for a sequence of tuples of numbers of one length
RECURSIVE sorted(_)
sorted(items) ==
    IF Len(items) <= 1 THEN items
    ELSE LET i == CHOOSE k \in 1..Len(items) :
                     \A j \in 1..Len(items) : ~ TupleLess(items[j], items[k])
             rest == [k \in 1..(Len(items) - 1) |->
                         IF k < i THEN items[k] ELSE items[k + 1]]
         IN  <<items[i]>> \o sorted(rest)

\* "for ... in sorted(...): midstate.update(...)": the tuples one after
\* the other
RECURSIVE Flatten(_)
Flatten(items) ==
    IF items = <<>> THEN <<>> ELSE Head(items) \o Flatten(Tail(items))

\* hash_set(objs) for the hashes of objs in the order in which objs iterates
hash_set(obj_hashes) ==
    Sha256(Flatten(sorted([i \in 1..Len(obj_hashes) |-> <<obj_hashes[i]>>])))

\* hash_dict(d) for the <<key_hash, value_hash>> pairs of d in the order in
\* which d.items() iterates
hash_dict(pairs) == Sha256(Flatten(sorted(pairs)))

\* the sequences in which a set can iterate
RECURSIVE IterationOrders(_)
IterationOrders(S) ==
    IF S = {} THEN {<<>>}
    ELSE UNION {{<<x>> \o rest : rest \in IterationOrders(S \ {x})} : x \in S}

\* the digests hash_set(objs) can give: hashed holds <<obj, obj.hash>> for
\* each obj of objs
HashSetOutcomes(hashed) ==
    {hash_set([i \in 1..Len(order) |-> order[i][2]]) :
        order \in IterationOrders(hashed)}

\* the ways to take one value digest for each key: items holds, for each
\* key of a dict, <<key, the hash of the key, the digests its value can give>>
RECURSIVE ValueChoices(_)
ValueChoices(items) ==
    IF items = {} THEN {{}}
    ELSE LET first == CHOOSE item \in items : TRUE
         IN  {{<<first[1], first[2], value_hash>>} \cup rest :
                 value_hash \in first[3], rest \in ValueChoices(items \ {first})}

\* the digests hash_dict(d) can give
HashDictOutcomes(items) ==
    UNION {{hash_dict([i \in 1..Len(order) |-> <<order[i][2], order[i][3]>>]) :
               order \in IterationOrders(chosen)}
           : chosen \in ValueChoices(items)}

\* hash_set of a set of colordefs
ColorDefSetOutcomes(colordefs) ==
    HashSetOutcomes({<<colordef, ColorDefHash(colordef)>> : colordef \in colordefs})

\* the proofs of the database whose hash cannot be taken: qty raises
Unhashable(self) ==
    {e.proof : e \in {x \in self.colored_outpoints : qty(x.proof).exc # "none"}}

\* ColorProofDb.calc_state_hash(): every outcome the call can have
calc_state_hash(self) ==
    LET colordefs_digests == ColorDefSetOutcomes(self.colordefs)
        genesis_outpoints_digests ==
            HashDictOutcomes(
                {<<outpoint, OutPointHash(outpoint),
                   ColorDefSetOutcomes({e[2] : e \in {x \in self.genesis_outpoints :
                                                         x[1] = outpoint}})>> :
                    outpoint \in {e[1] : e \in self.genesis_outpoints}})
        genesis_scriptPubKeys_digests ==
            HashDictOutcomes(
                {<<scriptPubKey, ScriptHash(scriptPubKey),
                   ColorDefSetOutcomes({e[2] : e \in {x \in self.genesis_scriptPubKeys :
                                                         x[1] = scriptPubKey}})>> :
                    scriptPubKey \in {e[1] : e \in self.genesis_scriptPubKeys}})
        colored_outpoints_digests ==
            HashDictOutcomes(
                {<<outpoint, OutPointHash(outpoint),
                   HashDictOutcomes(
                       {<<colordef, ColorDefHash(colordef),
                          HashSetOutcomes({<<proof, ProofHash(proof)>> :
                              proof \in ProofsAt(self, outpoint, colordef)})>> :
                           colordef \in {e.colordef :
                                            e \in {x \in self.colored_outpoints :
                                                      x.outpoint = outpoint}}})>> :
                    outpoint \in {e.outpoint : e \in self.colored_outpoints}})
    IN  IF Unhashable(self) # {}
        THEN {[exc |-> qty(proof).exc, value |-> 0] : proof \in Unhashable(self)}
        ELSE {[exc |-> "none", value |-> Sha256(<<a, b, c, d>>)] :
                 a \in colordefs_digests, b \in genesis_outpoints_digests,
                 c \in genesis_scriptPubKeys_digests, d \in colored_outpoints_digests}

(***************************************************************************)
(* The database harness: calls of addcolordef, addcolorproof and addtx on  *)
(* one ColorProofDb, with the colordefs, proofs and transactions of        *)
(* DbColorDefs, DbColorProofs and LedgerTxs.  db.last records the call     *)
(* made last: its argument, the exception it raised, the iteration orders  *)
(* it met, what it found (for addcolordef whether the colordef was         *)
(* "present" or "absent", for addtx whether the call before it was the     *)
(* "same call") and the value it returned.                                 *)
(***************************************************************************)
\* genesis outpoints (0, 0) and (1, 0), the latter an output of transaction 1
ColorDefA ==
    ColorDef(1, [o \in {COutPoint(0, 0), COutPoint(1, 0)} |-> 2], {})

\* genesis outpoint (0, 0) and the genesis script 7
ColorDefB == ColorDef(2, [o \in {COutPoint(0, 0)} |-> 1], {7})

DbColorDefs == {ColorDefA, ColorDefB}

DbColorProofs ==
    {   \* a genesis outpoint proof of ColorDefA
        GenesisOutPointColorProof(ColorDefA, COutPoint(0, 0)),
        \* output 0 of transaction 1 as a genesis script output of ColorDefA,
        \* which has no genesis script
        GenesisScriptPubKeyColorProof(ColorDefA, COutPoint(1, 0), LedgerTxs[1]),
        \* output 0 of transaction 2, coloured from the genesis outpoint (1, 0)
        TransferredColorProof(ColorDefA, COutPoint(2, 0), LedgerTxs[2],
            [o \in {COutPoint(1, 0)} |->
                GenesisOutPointColorProof(ColorDefA, COutPoint(1, 0))]),
        \* an outpoint that is no genesis outpoint of ColorDefB
        GenesisOutPointColorProof(ColorDefB, COutPoint(1, 0)),
        \* output 0 of transaction 5, coloured from (1, 0), which transaction 1
        \* coloured from the genesis outpoint (0, 0), and from (0, 0) itself
        TransferredColorProof(ColorDefA, COutPoint(5, 0), LedgerTxs[5],
            (COutPoint(1, 0) :>
                TransferredColorProof(ColorDefA, COutPoint(1, 0), LedgerTxs[1],
                    [o \in {COutPoint(0, 0)} |->
                        GenesisOutPointColorProof(ColorDefA, COutPoint(0, 0))]))
            @@ (COutPoint(0, 0) :>
                GenesisOutPointColorProof(ColorDefA, COutPoint(0, 0)))) }

DbIdle == [pc |-> "idle"]

DbInit ==
    db = [colordefs |-> ColorProofDb.colordefs,
          genesis_outpoints |-> ColorProofDb.genesis_outpoints,
          genesis_scriptPubKeys |-> ColorProofDb.genesis_scriptPubKeys,
          colored_outpoints |-> ColorProofDb.colored_outpoints,
          last |-> [op |-> "init", arg |-> <<>>, exc |-> "none",
                    iteration |-> NoIteration, found |-> "nothing", value |-> 0],
          nops |-> 0]

\* colordb.addcolordef(colordef)
DbAddColorDef ==
    /\ db.nops < MaxDbOps
    /\ \E colordef \in DbColorDefs :
          db' = [addcolordef(db, colordef) EXCEPT
                    !.last = [op |-> "addcolordef", arg |-> colordef,
                              exc |-> addcolordefRaises(db, colordef),
                              iteration |-> NoIteration,
                              found |-> IF colordef \in db.colordefs
                                        THEN "present" ELSE "absent",
                              value |-> 0],
                    !.nops = db.nops + 1]
    /\ UNCHANGED <<pad, kern, tree, prf, dag, wal>>

\* colordb.addcolorproof(colorproof)
DbAddColorProof ==
    /\ db.nops < MaxDbOps
    /\ \E colorproof \in DbColorProofs :
          db' = [addcolorproof(db, colorproof) EXCEPT
                    !.last = [op |-> "addcolorproof", arg |-> colorproof, exc |-> "none",
                              iteration |-> NoIteration, found |-> "nothing", value |-> 0],
                    !.nops = db.nops + 1]
    /\ UNCHANGED <<pad, kern, tree, prf, dag, wal>>

\* colordb.addtx(tx); a call that raises leaves what it had inserted.  A
\* dict or set that no call has changed iterates as it did before, so the
\* same call made again at once iterates as the one before it.
DbAddTx ==
    /\ db.nops < MaxDbOps
    /\ \E i \in 1..Len(LedgerTxs) : \E iteration \in AddTxIterations(db, LedgerTxs[i]) :
          /\ (db.last.op = "addtx" /\ db.last.arg = LedgerTxs[i])
                 => iteration = db.last.iteration
          /\ \E r \in {addtxIterating(db, LedgerTxs[i], iteration)} :
                db' = [r.db EXCEPT
                          !.last = [op |-> "addtx", arg |-> LedgerTxs[i],
                                    exc |-> r.exc, iteration |-> iteration,
                                    found |-> IF /\ db.last.op = "addtx"
                                                 /\ db.last.arg = LedgerTxs[i]
                                              THEN "same call" ELSE "nothing",
                                    value |-> 0],
                          !.nops = db.nops + 1]
    /\ UNCHANGED <<pad, kern, tree, prf, dag, wal>>

\* colordb.calc_state_hash()
DbCalcStateHash ==
    /\ db.nops < MaxDbOps
    /\ \E r \in calc_state_hash(db) :
          db' = [db EXCEPT
                    !.last = [op |-> "calc_state_hash", arg |-> <<>>, exc |-> r.exc,
                              iteration |-> NoIteration, found |-> "nothing",
                              value |-> r.value],
                    !.nops = db.nops + 1]
    /\ UNCHANGED <<pad, kern, tree, prf, dag, wal>>

(***************************************************************************)
(* The proof harness: one colour proof of PrfProofs, on which qty is read, *)
(* validate() is called, and the nValue of an output of the transaction    *)
(* the proof refers to is set to another value.  A proof keeps a reference *)
(* to the transaction it was built with.                                   *)
(***************************************************************************)
\* a transaction outside the ledger: spends (2, 0), bit 0, capacity 2
SpendTx ==
    CTransaction(<<CTxIn(COutPoint(2, 0), PlainNSequence(1, 0, 126))>>,
                 <<CTxOut(NatToBits(4), 0)>>)

\* output n of transaction 2, coloured from (1, 0) by the given proof
TransferredBy2(colordef, n, prevout_proof) ==
    TransferredColorProof(colordef, COutPoint(2, n), LedgerTxs[2],
                          (outpoint_of(prevout_proof) :> prevout_proof))

PrfProofs ==
    {   \* genesis proofs: a genesis outpoint and one that is none, a genesis
        \* script output, one with another script and one past the outputs
        GenesisOutPointColorProof(ColorDefA, COutPoint(0, 0)),
        GenesisOutPointColorProof(ColorDefB, COutPoint(1, 0)),
        GenesisScriptPubKeyColorProof(ColorDefB, COutPoint(1, 0), LedgerTxs[1]),
        GenesisScriptPubKeyColorProof(ColorDefA, COutPoint(1, 0), LedgerTxs[1]),
        GenesisScriptPubKeyColorProof(ColorDefB, COutPoint(1, 1), LedgerTxs[1]),
        \* outputs 0, 1 and 2 of transaction 2; output 1 is not coloured and
        \* there is no output 2
        TransferredBy2(ColorDefA, 0, GenesisOutPointColorProof(ColorDefA, COutPoint(1, 0))),
        TransferredBy2(ColorDefA, 1, GenesisOutPointColorProof(ColorDefA, COutPoint(1, 0))),
        TransferredBy2(ColorDefA, 2, GenesisOutPointColorProof(ColorDefA, COutPoint(1, 0))),
        \* output 0 of transaction 2 over each kind of genesis proof above
        TransferredBy2(ColorDefB, 0, GenesisOutPointColorProof(ColorDefB, COutPoint(1, 0))),
        TransferredBy2(ColorDefB, 0,
            GenesisScriptPubKeyColorProof(ColorDefB, COutPoint(1, 0), LedgerTxs[1])),
        TransferredBy2(ColorDefA, 0,
            GenesisScriptPubKeyColorProof(ColorDefA, COutPoint(1, 0), LedgerTxs[1])),
        TransferredBy2(ColorDefB, 0,
            GenesisScriptPubKeyColorProof(ColorDefB, COutPoint(1, 1), LedgerTxs[1])),
        \* the kernel 0x7F
        TransferredColorProof(ColorDefA, COutPoint(6, 0), LedgerTxs[6],
            (COutPoint(0, 0) :> GenesisOutPointColorProof(ColorDefA, COutPoint(0, 0)))),
        \* two transfers deep: over output 0 of transaction 2, and over its
        \* output 1
        TransferredColorProof(ColorDefB, COutPoint(8, 0), SpendTx,
            (COutPoint(2, 0) :> TransferredBy2(ColorDefB, 0,
                GenesisScriptPubKeyColorProof(ColorDefB, COutPoint(1, 0), LedgerTxs[1])))),
        TransferredColorProof(ColorDefA, COutPoint(8, 0), SpendTx,
            (COutPoint(2, 1) :> TransferredBy2(ColorDefA, 1,
                GenesisOutPointColorProof(ColorDefA, COutPoint(1, 0))))) }

\* the nValues an output is set to: capacities 0, 1 and 2
PrfNValues == {NatToBits(0), NatToBits(2), NatToBits(4)}

PrfIdle == [pc |-> "idle"]

PrfInit ==
    \E proof \in PrfProofs :
        prf = [pc |-> "ready", proof |-> proof, op |-> "init", exc |-> "none",
               nops |-> 0]

\* "proof.qty"
PrfQty ==
    /\ prf.pc = "ready"
    /\ prf.nops < MaxPrfOps
    /\ \E r \in {qty(prf.proof)} :
          prf' = [prf EXCEPT !.proof = ReadQty(prf.proof), !.op = "qty",
                             !.exc = r.exc, !.nops = @ + 1]
    /\ UNCHANGED <<pad, kern, tree, db, dag, wal>>

\* "proof.tx.vout[k].nValue = nValue" on the transaction the proof refers to
PrfSetNValue ==
    /\ prf.pc = "ready"
    /\ prf.nops < MaxPrfOps
    /\ prf.proof.kind # "GenesisOutPoint"
    /\ \E k \in 1..Len(prf.proof.tx.vout), nValue \in PrfNValues :
          /\ nValue # prf.proof.tx.vout[k].nValue
          /\ prf' = [prf EXCEPT !.proof.tx.vout[k].nValue = nValue,
                                !.op = "set_nValue", !.exc = "none", !.nops = @ + 1]
    /\ UNCHANGED <<pad, kern, tree, db, dag, wal>>

\* "proof.validate()"
PrfValidate ==
    /\ prf.pc = "ready"
    /\ prf.nops < MaxPrfOps
    /\ \E r \in {validate(prf.proof)} :
          prf' = [prf EXCEPT !.proof = r.proof, !.op = "validate",
                             !.exc = r.exc, !.nops = @ + 1]
    /\ UNCHANGED <<pad, kern, tree, db, dag, wal>>


(***************************************************************************)
(* validate() step by step: one step for the test of "while                *)
(* remaining_proofs", one for each proof of "for proof in                  *)
(* remaining_proofs", one for "remaining_proofs = next_remaining_proofs".  *)
(* The lists hold the paths of the proofs; visited is the set of the paths *)
(* on which _validate() was called.                                        *)
(***************************************************************************)
\* output 0 of SpendTx for ColorDefA, three transfers from the genesis
\* outpoint (0, 0): through transactions 1 and 2
ChainProof ==
    TransferredColorProof(ColorDefA, COutPoint(8, 0), SpendTx,
        (COutPoint(2, 0) :>
            TransferredColorProof(ColorDefA, COutPoint(2, 0), LedgerTxs[2],
                (COutPoint(1, 0) :>
                    TransferredColorProof(ColorDefA, COutPoint(1, 0), LedgerTxs[1],
                        (COutPoint(0, 0) :>
                            GenesisOutPointColorProof(ColorDefA, COutPoint(0, 0))))))))

\* output n of transaction 5 for ColorDefA: the proof of (1, 0) and the
\* proof of (0, 0), which the proof of (1, 0) has as its prevout proof too
SharingProof(n) ==
    TransferredColorProof(ColorDefA, COutPoint(5, n), LedgerTxs[5],
        (COutPoint(1, 0) :>
            TransferredColorProof(ColorDefA, COutPoint(1, 0), LedgerTxs[1],
                (COutPoint(0, 0) :>
                    GenesisOutPointColorProof(ColorDefA, COutPoint(0, 0)))))
        @@ (COutPoint(0, 0) :> GenesisOutPointColorProof(ColorDefA, COutPoint(0, 0))))

\* the proofs validate() is called on
ValidateProofs ==
    PrfProofs \cup DbColorProofs \cup {ChainProof} \cup {SharingProof(n) : n \in 0..2}

\* "remaining_proofs = (self,)"
ValidateInit ==
    \E proof \in ValidateProofs :
        prf = [pc |-> "while", proof |-> proof, remaining_proofs |-> << <<>> >>,
               next_remaining_proofs |-> <<>>, i |-> 1, exc |-> "none",
               visited |-> {}]

\* "while remaining_proofs:" and "next_remaining_proofs = []"; validate()
\* returns when the list is empty
ValidateWhile ==
    /\ prf.pc = "while"
    /\ IF prf.remaining_proofs = <<>>
       THEN prf' = [prf EXCEPT !.pc = "returned"]
       ELSE prf' = [prf EXCEPT !.pc = "for", !.next_remaining_proofs = <<>>, !.i = 1]
    /\ UNCHANGED <<pad, kern, tree, db, dag, wal>>

\* "next_remaining_proofs.extend(proof._validate())" for the next proof of
\* remaining_proofs
ValidateProof ==
    /\ prf.pc = "for"
    /\ prf.i <= Len(prf.remaining_proofs)
    /\ \E r \in {ValidateAt(prf.proof, prf.remaining_proofs[prf.i])} :
          IF r.exc # "none"
          THEN prf' = [prf EXCEPT !.pc = "raised", !.exc = r.exc, !.proof = r.proof,
                                  !.visited = @ \cup {prf.remaining_proofs[prf.i]}]
          ELSE prf' = [prf EXCEPT !.i = @ + 1, !.proof = r.proof,
                                  !.next_remaining_proofs = @ \o r.yielded,
                                  !.visited = @ \cup {prf.remaining_proofs[prf.i]}]
    /\ UNCHANGED <<pad, kern, tree, db, dag, wal>>

\* a list that stays as it is when the for loop ends
RemainingKeptProofs(remaining_proofs, next_remaining_proofs) == remaining_proofs

\* "remaining_proofs = next_remaining_proofs"
NextRemainingProofs(remaining_proofs, next_remaining_proofs) == next_remaining_proofs

\* the end of the for loop
ValidateNextLevel ==
    /\ prf.pc = "for"
    /\ prf.i > Len(prf.remaining_proofs)
    /\ prf' = [prf EXCEPT !.pc = "while",
                          !.remaining_proofs =
                              NextRemainingProofs(prf.remaining_proofs,
                                                  prf.next_remaining_proofs)]
    /\ UNCHANGED <<pad, kern, tree, db, dag, wal>>

(***************************************************************************)
(* DagTuple (core/util.py).  A DagTuple is an immutable object that holds  *)
(* its own values and references to its parents; the objects made so far   *)
(* are the heap, a sequence of records, and a reference is a position in   *)
(* the heap.                                                               *)
(***************************************************************************)
DagReturned(heap, node) == [heap |-> heap, node |-> node]

\* DagTuple(iterable, parents=parents)
DagTuple(heap, iterable, parents) ==
    DagReturned(Append(heap, [parents |-> parents, values |-> iterable]), Len(heap) + 1)

\* self.extend(iterable): a new instance, or self when the iterable is empty
extend(heap, self, iterable) ==
    IF DagTuple(heap, iterable, <<self>>).heap[Len(heap) + 1].values # <<>>
    THEN DagTuple(heap, iterable, <<self>>)
    ELSE DagReturned(heap, self)

\* self.append(value)
append(heap, self, value) == extend(heap, self, <<value>>)

\* self.merge(tips)
merge(heap, self, tips) == DagTuple(heap, <<>>, <<self>> \o tips)

\* reversed(t) of a tuple
Reverse(t) == [k \in 1..Len(t) |-> t[Len(t) + 1 - k]]

\* the for loop of __reversed__ over reversed(parents), from position k down:
\* what it yields and the next_parents it leaves
RECURSIVE ReversedFor(_, _, _, _, _)
ReversedFor(heap, parents, k, yielded, next_parents) ==
    IF k = 0 THEN [yielded |-> yielded, next_parents |-> next_parents]
    ELSE ReversedFor(heap, parents, k - 1,
                     yielded \o Reverse(heap[parents[k]].values),
                     next_parents \o heap[parents[k]].parents)

\* the while loop of __reversed__
RECURSIVE ReversedWhile(_, _)
ReversedWhile(heap, parents) ==
    IF parents = <<>> THEN <<>>
    ELSE Eval(ReversedFor(heap, parents, Len(parents), <<>>, <<>>),
              LAMBDA level : level.yielded \o ReversedWhile(heap, level.next_parents))

\* tuple(reversed(self))
reversed(heap, self) == ReversedWhile(heap, <<self>>)

\* tuple(self)
iter(heap, self) == Reverse(reversed(heap, self))

(***************************************************************************)
(* The DagTuple harness: tuples are made by the constructor, extend,       *)
(* append and merge, and any of them is iterated.  Every value put in a    *)
(* tuple is a fresh one: the pair of the number of the call and the        *)
(* position in the iterable.                                               *)
(***************************************************************************)
MaxDagNodes == 4            \* DagTuples made in one run
MaxDagValues == 2           \* values given to one constructor or extend call
MaxDagParents == 2          \* parents given to one constructor, tips to one merge

DagIdle == [pc |-> "idle"]

DagInit ==
    dag = [pc |-> "ready", heap |-> <<>>, calls |-> 0,
           last |-> [op |-> "none", node |-> 0, value |-> <<>>]]

FreshValues(n) == [k \in 1..n |-> <<dag.calls + 1, k>>]

\* the lists of at most `most` different tuples of the heap
DagParentLists(heap, most) ==
    {parents \in UNION {[1..n -> 1..Len(heap)] : n \in 0..most} :
        \A i, j \in 1..Len(parents) : parents[i] = parents[j] => i = j}

DagCalled(op, r) ==
    dag' = [dag EXCEPT !.heap = r.heap, !.calls = dag.calls + 1,
                       !.last = [op |-> op, node |-> r.node, value |-> <<>>]]

DagConstruct ==
    /\ dag.pc = "ready"
    /\ dag.calls < MaxDagNodes
    /\ \E n \in 0..MaxDagValues, parents \in DagParentLists(dag.heap, MaxDagParents) :
           DagCalled("DagTuple", DagTuple(dag.heap, FreshValues(n), parents))
    /\ UNCHANGED <<pad, kern, tree, db, prf, wal>>

DagExtend ==
    /\ dag.pc = "ready"
    /\ dag.calls < MaxDagNodes
    /\ \E self \in 1..Len(dag.heap), n \in 0..MaxDagValues :
           DagCalled("extend", extend(dag.heap, self, FreshValues(n)))
    /\ UNCHANGED <<pad, kern, tree, db, prf, wal>>

DagAppend ==
    /\ dag.pc = "ready"
    /\ dag.calls < MaxDagNodes
    /\ \E self \in 1..Len(dag.heap) :
           DagCalled("append", append(dag.heap, self, FreshValues(1)[1]))
    /\ UNCHANGED <<pad, kern, tree, db, prf, wal>>

DagMerge ==
    /\ dag.pc = "ready"
    /\ dag.calls < MaxDagNodes
    /\ \E self \in 1..Len(dag.heap),
          tips \in DagParentLists(dag.heap, MaxDagParents - 1) :
           /\ self \notin ItemSet(tips)
           /\ DagCalled("merge", merge(dag.heap, self, tips))
    /\ UNCHANGED <<pad, kern, tree, db, prf, wal>>

DagIter ==
    /\ dag.pc = "ready"
    /\ \E self \in 1..Len(dag.heap) :
           dag' = [dag EXCEPT !.last = [op |-> "iter", node |-> self,
                                        value |-> iter(dag.heap, self)]]
    /\ UNCHANGED <<pad, kern, tree, db, prf, wal>>

(***************************************************************************)
(* The wallet (wallet.py).  An element of prevouts is a colour proof or a  *)
(* COutPoint; an element of amounts_out is a tuple (qty, scriptPubKey,     *)
(* nValue).  get_change_scriptPubKey and calc_dust_limit are functions of  *)
(* the caller: the first is modelled by the script it returns (or None),   *)
(* the second by a function from scripts to nValues.                       *)
(***************************************************************************)
\* None where an nValue, a bit vector, is expected
NoValue == <<None>>

\* isinstance(prevout, ColorProof)
IsColorProof(prevout) == "kind" \in DOMAIN prevout

\* sum(prevproof.qty for prevproof in prevout_proofs)
RECURSIVE SumQtyIn(_, _)
SumQtyIn(prevout_proofs, i) ==
    IF i > Len(prevout_proofs) THEN 0
    ELSE qty(prevout_proofs[i]).value + SumQtyIn(prevout_proofs, i + 1)

\* sum(qty if qty else 0 for qty, scriptPubKey, nValue in amounts_out)
RECURSIVE SumQtyOut(_, _)
SumQtyOut(amounts_out, i) ==
    IF i > Len(amounts_out) THEN 0
    ELSE (IF amounts_out[i][1] = None THEN 0 ELSE amounts_out[i][1])
             + SumQtyOut(amounts_out, i + 1)

\* a mask that the coloured output leaves as it was
ColoredTxoutMaskKept(colored_txout_mask, i) == colored_txout_mask

\* colored_txout_mask |= 1 << i
ColoredTxoutMask(colored_txout_mask, i) == BitOr(colored_txout_mask, OneShl(i))

\* "for i, (qty, scriptPubKey, nValue) in enumerate(amounts_out)", from index i
RECURSIVE WalletOutputs(_, _, _, _, _)
WalletOutputs(amounts_out, calc_dust_limit, i, colored_txout_mask, vout) ==
    IF i >= Len(amounts_out)
    THEN [exc |-> "none", colored_txout_mask |-> colored_txout_mask, vout |-> vout]
    ELSE Eval(amounts_out[i + 1], LAMBDA amount :
         IF amount[1] # None
         THEN IF amount[3] # NoValue
              THEN [exc |-> "AssertionError", colored_txout_mask |-> colored_txout_mask,
                    vout |-> vout]
              ELSE Eval(add_msbdrop_value_padding(NatToBits(amount[1]),
                                                  calc_dust_limit[amount[2]]),
                        LAMBDA nValue :
                   IF nValue.exc # "none"
                   THEN [exc |-> nValue.exc, colored_txout_mask |-> colored_txout_mask,
                         vout |-> vout]
                   ELSE WalletOutputs(amounts_out, calc_dust_limit, i + 1,
                                      ColoredTxoutMask(colored_txout_mask, i),
                                      Append(vout, CTxOut(nValue.value, amount[2]))))
         ELSE IF amount[3] = NoValue
              THEN [exc |-> "AssertionError", colored_txout_mask |-> colored_txout_mask,
                    vout |-> vout]
              ELSE WalletOutputs(amounts_out, calc_dust_limit, i + 1, colored_txout_mask,
                                 Append(vout, CTxOut(amount[3], amount[2]))))

\* the nSequence of a coloured input
WalletNSequence(colorproof, colored_txout_mask, use_steg) ==
    Eval(IF use_steg
         THEN BitXor(Shl(colored_txout_mask, 16),
                     nSequence_pad(colorproof.colordef, outpoint_of(colorproof)))
         ELSE Shl(colored_txout_mask, 16),
         LAMBDA nSequence :
             \* (nSequence & 0xFFFFFF00) | 0x7E | (1 << 7 if use_steg else 0)
             BitOr(BitOr(Shl(Slice(nSequence, 8, 24), 8), NatToBits(126)),
                   IF use_steg THEN OneShl(7) ELSE <<>>))

\* "for prevout in prevouts": the inputs
WalletInputs(prevouts, colored_txout_mask, use_steg) ==
    [k \in 1..Len(prevouts) |->
        IF IsColorProof(prevouts[k])
        THEN CTxIn(outpoint_of(prevouts[k]),
                   WalletNSequence(prevouts[k], colored_txout_mask, use_steg))
        ELSE CTxIn(prevouts[k], AllOnes(32))]

\* create_nSequence_color_tx(prevouts, amounts_out, get_change_scriptPubKey,
\*                           calc_dust_limit, use_steg)
create_nSequence_color_tx(prevouts, amounts_out, get_change_scriptPubKey, calc_dust_limit, use_steg) ==
    LET prevout_proofs == SelectSeq(prevouts, IsColorProof)
        qty_in == SumQtyIn(prevout_proofs, 1)
        qty_out == SumQtyOut(amounts_out, 1)
        change_qty == qty_in - qty_out
        with_change ==
            IF qty_in > qty_out /\ get_change_scriptPubKey # None
            THEN Append(amounts_out, <<change_qty, get_change_scriptPubKey, NoValue>>)
            ELSE amounts_out
    IN  IF \E k \in 1..Len(prevout_proofs) :
               prevout_proofs[k].colordef # prevout_proofs[1].colordef
        THEN Raised("Exception")
        ELSE IF \E k \in 1..Len(prevout_proofs) : qty(prevout_proofs[k]).exc # "none"
        THEN Raised(qty(prevout_proofs[CHOOSE k \in 1..Len(prevout_proofs) :
                           /\ qty(prevout_proofs[k]).exc # "none"
                           /\ \A h \in 1..(k - 1) : qty(prevout_proofs[h]).exc = "none"]).exc)
        ELSE IF qty_out > qty_in
        THEN Raised("Exception")
        ELSE IF Len(amounts_out) > (IF qty_in = qty_out THEN 16 ELSE 15)
        THEN Raised("Exception")
        ELSE Eval(WalletOutputs(with_change, calc_dust_limit, 0, <<>>, <<>>),
                  LAMBDA outputs :
                      IF outputs.exc # "none" THEN Raised(outputs.exc)
                      ELSE Returned(<<WalletInputs(prevouts, outputs.colored_txout_mask,
                                                   use_steg),
                                      outputs.vout>>))

(***************************************************************************)
(* The wallet harness: one call of create_nSequence_color_tx, then         *)
(* apply_kernel of the inputs' colordef on the transaction it returned,    *)
(* with the quantities of the inputs' proofs.                              *)
(***************************************************************************)
MaxWalletInputs == 2        \* prevouts of one call
MaxWalletOutputs == 2       \* amounts_out of one call (beside the 15 to 17 long)

\* the wallet's colour: genesis outpoints (1, n) of quantity 0, 1 and 3
WalletColorDef ==
    ColorDef(2, (COutPoint(1, 0) :> 0) @@ (COutPoint(1, 1) :> 1) @@ (COutPoint(1, 2) :> 3),
             {})

\* another colour, with one genesis outpoint
OtherColorDef == ColorDef(3, (COutPoint(1, 3) :> 1), {})

\* what a prevout can be: a proof of either colour, or an uncoloured outpoint
WalletPrevouts ==
    {GenesisOutPointColorProof(WalletColorDef, outpoint) :
        outpoint \in DOMAIN WalletColorDef.genesis_outpoints}
    \cup {GenesisOutPointColorProof(OtherColorDef, COutPoint(1, 3)), COutPoint(1, 4)}

\* the scripts: 1 and 2 of the outputs asked for, 3 of the change
WalletScripts == {1, 2, 3}

\* what an element of amounts_out can be: coloured with quantity 1 or 2, or
\* uncoloured with nValue 5
WalletAmounts ==
    {<<1, 1, NoValue>>, <<2, 2, NoValue>>, <<None, 1, NatToBits(5)>>}

\* the short lists of amounts_out, and the lists of 15, 16 and 17 elements
\* with one coloured element at the end
WalletAmountsOut ==
    UNION {[1..n -> WalletAmounts] : n \in 0..MaxWalletOutputs}
    \cup {[k \in 1..n |-> IF k < n THEN <<None, 1, NatToBits(5)>> ELSE <<1, 2, NoValue>>] :
            n \in {15, 16, 17}}

\* the dust limits: none (the default), and 7 for every script
WalletDustLimits == {[scriptPubKey \in WalletScripts |-> limit] :
                        limit \in {NatToBits(0), NatToBits(7)}}

\* the lists of at most MaxWalletInputs different prevouts
WalletPrevoutLists ==
    {prevouts \in UNION {[1..n -> WalletPrevouts] : n \in 0..MaxWalletInputs} :
        \A i, j \in 1..Len(prevouts) : prevouts[i] = prevouts[j] => i = j}

WalIdle == [pc |-> "idle"]

WalInit ==
    \E prevouts \in WalletPrevoutLists, amounts_out \in WalletAmountsOut,
       get_change_scriptPubKey \in {None, 3}, calc_dust_limit \in WalletDustLimits,
       use_steg \in BOOLEAN :
        wal = [pc |-> "start", prevouts |-> prevouts, amounts_out |-> amounts_out,
               get_change_scriptPubKey |-> get_change_scriptPubKey,
               calc_dust_limit |-> calc_dust_limit, use_steg |-> use_steg,
               tx |-> NotCalled, color_qtys_out |-> NotCalled]

\* vin, vout = create_nSequence_color_tx(...)
WalletCreate ==
    /\ wal.pc = "start"
    /\ \E r \in {create_nSequence_color_tx(wal.prevouts, wal.amounts_out,
                                           wal.get_change_scriptPubKey,
                                           wal.calc_dust_limit, wal.use_steg)} :
           wal' = [wal EXCEPT !.pc = IF r.exc = "none" THEN "built" ELSE "raised",
                              !.tx = r]
    /\ UNCHANGED <<pad, kern, tree, db, prf, dag>>

\* the colordef of the inputs' proofs
WalletInputsColorDef(prevouts) ==
    IF SelectSeq(prevouts, IsColorProof) = <<>> THEN WalletColorDef
    ELSE SelectSeq(prevouts, IsColorProof)[1].colordef

\* the quantities of the inputs' proofs by outpoint
WalletQtyByOutpoint(prevouts) ==
    [outpoint \in {outpoint_of(prevouts[k]) : k \in {h \in 1..Len(prevouts) :
                                                       IsColorProof(prevouts[h])}} |->
        qty(CHOOSE proof \in ItemSet(SelectSeq(prevouts, IsColorProof)) :
                outpoint_of(proof) = outpoint).value]

\* colordef.apply_kernel(CTransaction(vin, vout), qtys of the proofs)
WalletApplyKernel ==
    /\ wal.pc = "built"
    /\ \E r \in {apply_kernel(WalletInputsColorDef(wal.prevouts),
                              CTransaction(wal.tx.value[1], wal.tx.value[2]),
                              WalletQtyByOutpoint(wal.prevouts))} :
           wal' = [wal EXCEPT !.pc = "applied", !.color_qtys_out = r]
    /\ UNCHANGED <<pad, kern, tree, db, prf, dag>>

SpecPadInit == PadInit /\ kern = KernIdle /\ tree = TreeIdle /\ db = DbIdle /\ prf = PrfIdle
    /\ dag = DagIdle /\ wal = WalIdle
SpecPadNext == DoAddPadding \/ DoRemovePadding
SpecPad == SpecPadInit /\ [][SpecPadNext]_vars

SpecKernelInit == KernInit /\ pad = PadIdle /\ tree = TreeIdle /\ db = DbIdle /\ prf = PrfIdle
    /\ dag = DagIdle /\ wal = WalIdle
SpecKernelNext == KernelTxin \/ KernelReturn
SpecKernel == SpecKernelInit /\ [][SpecKernelNext]_vars

SpecApplyKernelInit ==
    ApplyKernelInit /\ pad = PadIdle /\ tree = TreeIdle /\ db = DbIdle /\ prf = PrfIdle
    /\ dag = DagIdle /\ wal = WalIdle
SpecApplyKernelNext == ApplyKernelTxin \/ ApplyKernelReturn
SpecApplyKernel == SpecApplyKernelInit /\ [][SpecApplyKernelNext]_vars

SpecValidateInit ==
    ValidateInit /\ pad = PadIdle /\ kern = KernIdle /\ tree = TreeIdle /\ db = DbIdle
    /\ dag = DagIdle /\ wal = WalIdle
SpecValidateNext == ValidateWhile \/ ValidateProof \/ ValidateNextLevel
\* validate() is one sequential call: a step that can be taken is taken
SpecValidate ==
    SpecValidateInit /\ [][SpecValidateNext]_vars /\ WF_vars(SpecValidateNext)

SpecDagInit ==
    DagInit /\ pad = PadIdle /\ kern = KernIdle /\ tree = TreeIdle /\ db = DbIdle
    /\ prf = PrfIdle /\ wal = WalIdle
SpecDagNext == DagConstruct \/ DagExtend \/ DagAppend \/ DagMerge \/ DagIter
SpecDag == SpecDagInit /\ [][SpecDagNext]_vars

SpecWalletInit ==
    WalInit /\ pad = PadIdle /\ kern = KernIdle /\ tree = TreeIdle /\ db = DbIdle
    /\ prf = PrfIdle /\ dag = DagIdle
SpecWalletNext == WalletCreate \/ WalletApplyKernel
SpecWallet == SpecWalletInit /\ [][SpecWalletNext]_vars

SpecTreeInit == TreeInit /\ pad = PadIdle /\ kern = KernIdle /\ db = DbIdle /\ prf = PrfIdle
    /\ dag = DagIdle /\ wal = WalIdle
SpecTreeNext == TreeFromItems \/ TreeSet \/ TreePop \/ TreeGetItem
SpecTree == SpecTreeInit /\ [][SpecTreeNext]_vars

SpecDbInit == DbInit /\ pad = PadIdle /\ kern = KernIdle /\ tree = TreeIdle /\ prf = PrfIdle
    /\ dag = DagIdle /\ wal = WalIdle
SpecDbNext == DbAddColorDef \/ DbAddColorProof \/ DbAddTx \/ DbCalcStateHash
SpecDb == SpecDbInit /\ [][SpecDbNext]_vars

\* a database that is given colordefs and transactions only
SpecDbTxsNext == DbAddColorDef \/ DbAddTx
SpecDbTxs == SpecDbInit /\ [][SpecDbTxsNext]_vars

SpecProofInit == PrfInit /\ pad = PadIdle /\ kern = KernIdle /\ tree = TreeIdle /\ db = DbIdle
    /\ dag = DagIdle /\ wal = WalIdle
SpecProofNext == PrfQty \/ PrfSetNValue \/ PrfValidate
SpecProof == SpecProofInit /\ [][SpecProofNext]_vars

(***************************************************************************)
(* The kernel's properties.                                                *)
(***************************************************************************)
\* the sum of the non-None entries of color_qtys_out
RECURSIVE SumColored(_)
SumColored(color_qtys_out) ==
    IF color_qtys_out = <<>> THEN 0
    ELSE (IF Head(color_qtys_out) = None THEN 0 ELSE Head(color_qtys_out))
            + SumColored(Tail(color_qtys_out))

\* C1: the sum of the non-None entries apply_kernel returns is at most the
\* sum of the coloured inputs' quantities, and the two are equal only when
\* no coloured input had quantity left over after its routing loop.
KernelConservation ==
    kern.pc = "returned" =>
        /\ SumColored(kern.color_qtys_out) <= kern.sum_in
        /\ SumColored(kern.color_qtys_out) = kern.sum_in => ~ kern.leftover

\* C1's case: two coloured inputs, all of whose colour reached the outputs.
KernelConservationWitness ==
    /\ kern.pc = "returned"
    /\ kern.nin = 2
    /\ kern.sum_in >= 3
    /\ SumColored(kern.color_qtys_out) = kern.sum_in

\* the transaction of test_one_to_two_less_than_max: one input with mask
\* 0b11, two outputs of capacity 1 and 2
OneToTwoTx ==
    CTransaction(<<CTxIn(COutPoint(0, 0), PlainNSequence(3, 0, 126))>>,
                 <<CTxOut(NatToBits(2), 0), CTxOut(NatToBits(4), 0)>>)

\* C3: in apply_kernel's result output j is non-None exactly when j < 16 and
\* some coloured input, with bit j of its decoded mask set, reached index j
\* with remaining quantity > 0; an output whose bit is set but which is
\* reached with nothing remaining stays None (mask 0b11, capacities [1, 2],
\* colour-in 1 gives [1, None]).
KernelOpened ==
    /\ kern.pc = "returned" =>
          \A j \in 0..(Len(kern.vout) - 1) :
              kern.color_qtys_out[j + 1] # None <=> (j < 16 /\ j \in kern.reached)
    /\ apply_kernel(KernelColorDef, OneToTwoTx, [o \in {COutPoint(0, 0)} |-> 1])
          = Returned(<<1, None>>)

\* C3's case: an output's bit is set by a coloured input that brought colour,
\* but the output was reached with nothing remaining and is None.
KernelOpenedWitness ==
    /\ kern.pc = "returned"
    /\ kern.sum_in > 0
    /\ \E j \in kern.marked : j \notin kern.reached /\ kern.color_qtys_out[j + 1] = None
    /\ \E j \in kern.reached : kern.color_qtys_out[j + 1] > 0

\* C2 (as claimed): for every qty in [0, 2**62-1] and minimum in
\* [0, 2**64-1], add_msbdrop_value_padding returns a value and
\* remove_msbdrop_value_padding of that value returns qty.
PadRoundTrip ==
    (/\ LessEq(pad.unpadded, AllOnes(62))
     /\ LessEq(pad.minimum, AllOnes(64)))
    => /\ pad.pc = "padded" => pad.padded.exc = "none"
       /\ pad.pc = "unpadded" => pad.roundtrip = Returned(pad.unpadded)

\* a quantity of color_qtys_out as a number: None counts as nothing
QtyOrZero(color_qty_out) == IF color_qty_out = None THEN 0 ELSE color_qty_out

\* the bucket rule for one coloured input, from output j on, for an input
\* that has left_at_j when it comes to output j: between color_qtys_out as
\* the input found it (before) and as it left it (after), output j below
\* min(16, number of outputs) with its bit set gained the smaller of what
\* the input had left and what the output could still take, every other
\* output gained nothing, and what the input has left after the last output
\* is what it had less what the outputs gained
RECURSIVE BucketFilled(_, _, _, _, _, _, _)
BucketFilled(j, left_at_j, before, after, remaining, colored_bits, vout) ==
    IF j = Len(vout)
    THEN remaining = left_at_j
    ELSE LET gained == QtyOrZero(after[j + 1]) - QtyOrZero(before[j + 1])
         IN  /\ gained =
                    IF j < MinOf(16, Len(vout)) /\ Bit(colored_bits, j) = 1
                    THEN MinOf(left_at_j,
                               BitsToNat(remove_msbdrop_value_padding(vout[j + 1].nValue).value)
                                   - QtyOrZero(before[j + 1]))
                    ELSE 0
             /\ BucketFilled(j + 1, left_at_j - gained, before, after, remaining,
                             colored_bits, vout)

\* C21: apply_kernel takes the coloured inputs in the order of tx.vin and,
\* for each, the outputs 0 .. min(16, number of outputs) - 1 in increasing
\* order; an output whose bit is set receives min(what the input has left,
\* unpadded value of the output - what the output holds already), so what
\* an earlier input filled is not free for a later one, and what an input
\* has left after the last output goes to no other input or output.
BucketFill ==
    (kern.pc = "loop" /\ kern.nin < MaxKernelInputs) =>
        \A txin \in KernelTxins[kern.nin] : \A color_qty_in \in 0..MaxKernelQty :
            LET r == calc_color_transferred(KernelColorDef, txin, color_qty_in,
                         kern.color_qtys_out, CTransaction(<<txin>>, kern.vout))
            IN  r.exc = "none" =>
                    BucketFilled(0, color_qty_in, kern.color_qtys_out, r.out,
                                 r.remaining, colored_bitfield(KernelColorDef, txin),
                                 kern.vout)

\* C21's case: an earlier input left an output filled in part, and a later
\* input with the bit of that output set brings more than the output can
\* still take: the output receives the rest of its capacity and the input
\* is left with a quantity that goes nowhere.
BucketFillWitness ==
    /\ kern.pc = "loop"
    /\ kern.nin = 1
    /\ \E j \in 0..(Len(kern.vout) - 1) :
          /\ kern.color_qtys_out[j + 1] # None
          /\ kern.color_qtys_out[j + 1] > 0
          /\ kern.color_qtys_out[j + 1] <
                BitsToNat(remove_msbdrop_value_padding(kern.vout[j + 1].nValue).value)
          /\ \E txin \in KernelTxins[kern.nin] :
                LET r == calc_color_transferred(KernelColorDef, txin, MaxKernelQty,
                             kern.color_qtys_out, CTransaction(<<txin>>, kern.vout))
                IN  /\ r.exc = "none"
                    /\ r.out[j + 1] > kern.color_qtys_out[j + 1]
                    /\ r.remaining > 0

PaddedAt(i, unpadded) == BitOr(BitOr(OneShl(i), Shl(unpadded, 1)), <<1>>)

\* the smallest bit position among bits
SmallestBit(bits) == CHOOSE i \in bits : \A k \in bits : i <= k

\* the value the formula gives for a quantity and a minimum; strict says
\* whether 1 << i is to be above (unpadded * 2) | 1, or may be equal to it
PaddingFormula(unpadded, minimum, strict) ==
    IF LessEq(minimum, Shl(unpadded, 1))
    THEN Shl(unpadded, 1)
    ELSE PaddedAt(SmallestBit({i \in 0..64 :
                     /\ LessEq(minimum, PaddedAt(i, unpadded))
                     /\ IF strict
                        THEN Less(BitOr(Shl(unpadded, 1), <<1>>), OneShl(i))
                        ELSE LessEq(BitOr(Shl(unpadded, 1), <<1>>), OneShl(i))}),
                  unpadded)

\* the call add_msbdrop_value_padding(qty, minimum) was made with qty in
\* [0, 2**62-1] and minimum in [0, 2**64-1]
PaddedInRange ==
    /\ pad.pc \in {"padded", "unpadded"}
    /\ LessEq(pad.unpadded, AllOnes(62))
    /\ LessEq(pad.minimum, AllOnes(64))

\* C19 (as claimed): add_msbdrop_value_padding(qty, minimum) returns qty*2
\* when qty*2 >= minimum, and else (1<<i) | (qty*2) | 1 for the smallest i
\* with (1<<i) | (qty*2) | 1 >= minimum and (1<<i) > (qty*2)|1.
PaddingFormulaStrict ==
    PaddedInRange =>
        pad.padded = Returned(PaddingFormula(pad.unpadded, pad.minimum, TRUE))

\* C19 (amended): add_msbdrop_value_padding(qty, minimum) returns qty*2
\* when qty*2 >= minimum, and else (1<<i) | (qty*2) | 1 for the smallest i
\* with (1<<i) | (qty*2) | 1 >= minimum and (1<<i) >= (qty*2)|1.
PaddingFormulaHolds ==
    PaddedInRange =>
        pad.padded = Returned(PaddingFormula(pad.unpadded, pad.minimum, FALSE))

\* C19's case: a quantity of 0 was padded for the minimum 1, and the
\* padding bit is bit 0.
PaddingFormulaWitness ==
    /\ pad.pc = "padded"
    /\ pad.unpadded = NatToBits(0)
    /\ pad.minimum = NatToBits(1)
    /\ pad.padded = Returned(NatToBits(1))

(***************************************************************************)
(* The radix tree's properties.                                            *)
(***************************************************************************)
\* C8 (as claimed): from_items of items with distinct keys returns a tree,
\* and from_items of every permutation of the items returns a tree with the
\* same structure and the same root hash.
TreeCanonical ==
    (tree.op = "from_items" /\ DistinctKeys(tree.items)) =>
        /\ tree.exc = "none"
        /\ \A items \in Orders(tree.items) :
              LET r == from_items(<<>>, items)
              IN  /\ r.exc = "none"
                  /\ Structure(r.heap, r.node) = Structure(tree.heap, tree.tip)
                  /\ GetHash(r.heap, r.node) = GetHash(tree.heap, tree.tip)

\* C9 (as claimed): starting from the empty tree, every set (of a new or an
\* existing key) and every pop of a present key returns a root, the root's
\* hash is the hash of from_items of the contents, and once every key is
\* popped the root is the Empty node.
TreeMatchesContents ==
    tree.from_empty =>
        /\ tree.op = "set" => tree.exc = "none"
        /\ (tree.op = "pop" /\ \E item \in tree.contents : item[1] = tree.key)
              => tree.exc = "none"
        /\ \A items \in SeqsOf(tree.contents) :
              LET r == from_items(<<>>, items)
              IN  /\ r.exc = "none"
                  /\ GetHash(r.heap, r.node) = GetHash(tree.heap, tree.tip)
        /\ (tree.op = "pop" /\ tree.contents = {}) => tree.tip = EmptyNode
\* one set or pop that returned: t1 is the root it was called on
TreePersistentStep ==
    (tree'.op \in {"set", "pop"} /\ tree'.exc = "none") =>
        /\ tree'.t1 = tree.tip
        /\ tree'.tip # tree.tip
        /\ tree'.op = "set" => tree'.tip > Len(tree.heap)
        /\ \A node \in 1..Len(tree.heap) : tree'.heap[node] = tree.heap[node]
        /\ Structure(tree'.heap, tree.tip) = Structure(tree.heap, tree.tip)
        /\ GetHash(tree'.heap, tree.tip) = GetHash(tree.heap, tree.tip)
        /\ \A k \in TreeKeys :
              getitem(tree'.heap, tree.tip, k) = getitem(tree.heap, tree.tip, k)
        /\ \A node \in OffPath(tree.heap, tree.tip, tree'.key, 0) \ {EmptyNode} :
              node \in Nodes(tree'.heap, tree'.tip)

\* C10: a set or a pop that returns gives a root other than t1 (a newly
\* allocated one for set) and leaves t1's structure, contents and hash as
\* they were, and every subtree of t1 off the path to the key is, by
\* reference, a node of the returned tree.
TreePersistent == [][TreePersistentStep]_vars

\* C10's case: a set or a pop on a tree that has an inner node off the path
\* to the key, which the returned tree shares.
TreePersistentWitness ==
    /\ tree.op \in {"set", "pop"}
    /\ tree.exc = "none"
    /\ tree.tip # tree.t1
    /\ \E node \in OffPath(tree.heap, tree.t1, tree.key, 0) :
          /\ NodeKind(tree.heap, node) = "inner"
          /\ node \in Nodes(tree.heap, tree.tip)

\* the lookup of a key in the contents: the value, or KeyError
ContentsGet(contents, key) ==
    IF \E item \in contents : item[1] = key
    THEN Returned((CHOOSE item \in contents : item[1] = key)[2])
    ELSE Raised("KeyError")

\* C11: in every tree built by from_items, set and pop, the lookup of every
\* key of full width returns the value the contents hold for it and raises
\* KeyError when they hold none, a lookup made returned just that, and pop
\* of a key that is not in the contents raises KeyError.
TreeLookup ==
    /\ \A key \in TreeAllKeys :
          LET got == getitem(tree.heap, tree.tip, key)
              held == ContentsGet(tree.contents, key)
          IN  /\ got.exc = held.exc
              /\ got.exc = "none" => got.value = held.value
              /\ held.exc = "KeyError"
                    => pop(tree.heap, tree.tip, key).exc = "KeyError"
    /\ tree.op = "getitem" =>
          LET held == ContentsGet(tree.contents, tree.key)
          IN  /\ tree.exc = held.exc
              /\ tree.exc = "none" => tree.value = held.value

\* C11's case: a lookup, in a tree with an inner node, of a key that is not
\* in the contents and whose path ends at a leaf, which holds another key.
TreeLookupWitness ==
    /\ tree.op = "getitem"
    /\ tree.exc = "KeyError"
    /\ NodeKind(tree.heap, tree.tip) = "inner"
    /\ \E node \in Nodes(tree.heap, tree.tip) :
          /\ NodeKind(tree.heap, node) = "leaf"
          /\ tree.heap[node].key # tree.key
          /\ tree.heap[node].key[1] = tree.key[1]
          /\ tree.heap[node].key[2] = tree.key[2]

\* C12 (as claimed): from_items of items of which two have the same key
\* raises KeyError, wherever the two are among the items.
TreeDuplicateKey ==
    (tree.op = "from_items" /\ ~ DistinctKeys(tree.items)) => tree.exc = "KeyError"

\* the number of leaf nodes of the tree under a node
RECURSIVE LeavesBeneath(_, _)
LeavesBeneath(heap, node) ==
    IF NodeKind(heap, node) = "empty" THEN 0
    ELSE IF NodeKind(heap, node) = "leaf" THEN 1
    ELSE LeavesBeneath(heap, heap[node].left) + LeavesBeneath(heap, heap[node].right)

\* C25: in every tree that from_items, set or pop produced, every inner
\* node has two leaves or more beneath it, a tree of one key is a leaf and a
\* tree of no key is the Empty node; and the constructor of an inner node
\* gives Empty for (Empty, Empty) and the leaf for (Empty, leaf) and
\* (leaf, Empty), without making a node.
TreeCanonicalForm ==
    /\ \A node \in Nodes(tree.heap, tree.tip) :
          NodeKind(tree.heap, node) = "inner" => LeavesBeneath(tree.heap, node) >= 2
    /\ LeavesBeneath(tree.heap, tree.tip) = Cardinality(tree.contents)
    /\ Cardinality(tree.contents) = 1 => NodeKind(tree.heap, tree.tip) = "leaf"
    /\ Cardinality(tree.contents) = 0 => tree.tip = EmptyNode
    /\ InnerNodeClass(tree.heap, EmptyNode, EmptyNode) =
          TreeReturned(tree.heap, EmptyNode)
    /\ \A leaf \in 1..Len(tree.heap) :
          tree.heap[leaf].kind = "leaf" =>
              /\ InnerNodeClass(tree.heap, EmptyNode, leaf) = TreeReturned(tree.heap, leaf)
              /\ InnerNodeClass(tree.heap, leaf, EmptyNode) = TreeReturned(tree.heap, leaf)

\* C25's case: pop returned on a tree whose root was an inner node with an
\* inner node on one side and Empty on the other, and what is left is one
\* leaf: the inner nodes above it are gone.
TreeCanonicalFormWitness ==
    /\ tree.op = "pop"
    /\ tree.exc = "none"
    /\ NodeKind(tree.heap, tree.t1) = "inner"
    /\ \/ /\ NodeKind(tree.heap, tree.heap[tree.t1].left) = "empty"
          /\ NodeKind(tree.heap, tree.heap[tree.t1].right) = "inner"
       \/ /\ NodeKind(tree.heap, tree.heap[tree.t1].right) = "empty"
          /\ NodeKind(tree.heap, tree.heap[tree.t1].left) = "inner"
    /\ NodeKind(tree.heap, tree.tip) = "leaf"

(***************************************************************************)
(* The database's properties.                                              *)
(***************************************************************************)
\* C4 (as claimed): in every state of the database, for each outpoint and
\* each colordef, all proofs of colored_outpoints[outpoint][colordef] have
\* the same qty.
QtyAgreement ==
    \A e1, e2 \in db.colored_outpoints :
        (e1.outpoint = e2.outpoint /\ e1.colordef = e2.colordef)
            => qty(e1.proof) = qty(e2.proof)

\* C4 (amended): when addtx(tx) returns, for each outpoint that tx spends
\* and each colordef, every proof of colored_outpoints[outpoint][colordef]
\* has a qty and all of them have the same one; addtx asserts it, the other
\* calls do not.
AddTxQtyAgreement ==
    (db.last.op = "addtx" /\ db.last.exc = "none") =>
        \A outpoint \in ItemSet(Prevouts(db.last.arg, 1)), colordef \in db.colordefs :
            \A p1, p2 \in ProofsAt(db, outpoint, colordef) :
                qty(p1).exc = "none" /\ qty(p1) = qty(p2)

\* C4's case: addtx returned after it spent an outpoint that has two proofs
\* for one colordef, and stored a transferred proof.
AddTxQtyAgreementWitness ==
    /\ db.last.op = "addtx"
    /\ db.last.exc = "none"
    /\ \E outpoint \in ItemSet(Prevouts(db.last.arg, 1)), colordef \in db.colordefs :
          /\ Cardinality(ProofsAt(db, outpoint, colordef)) >= 2
          /\ \E p \in ProofsAt(db, COutPoint(TxHash(db.last.arg), 0), colordef) :
                p.kind = "Transferred"
\* the transactions of C5: one input, which spends a genesis outpoint of the
\* colordef of quantity q >= 1 with kernel 0x7E and bit 0 of the mask set,
\* and an output 0 of unpadded capacity >= q
SpendsGenesisToOutput0(colordef, tx) ==
    /\ Len(tx.vin) = 1
    /\ Len(tx.vout) >= 1
    /\ tx.vin[1].prevout \in DOMAIN colordef.genesis_outpoints
    /\ colordef.genesis_outpoints[tx.vin[1].prevout] >= 1
    /\ BitsToNat(Slice(tx.vin[1].nSequence, 0, 7)) = 126
    /\ Bit(colored_bitfield(colordef, tx.vin[1]), 0) = 1
    /\ LET unpadded == remove_msbdrop_value_padding(tx.vout[1].nValue)
       IN  /\ unpadded.exc = "none"
           /\ BitsToNat(unpadded.value) >= colordef.genesis_outpoints[tx.vin[1].prevout]

\* bits 8-15 of the decrypted nSequence of the input are zero
ReservedBitsZero(colordef, tx) ==
    BitsToNat(Slice(decrypted_nSequence(colordef, tx.vin[1]), 8, 8)) = 0

\* the database holds at output 0 of tx a transferred proof of the colordef
\* whose qty is the genesis quantity and whose validate() returns
HoldsTransferredGenesisQty(self, colordef, tx) ==
    \E p \in ProofsAt(self, COutPoint(TxHash(tx), 0), colordef) :
        /\ p.kind = "Transferred"
        /\ qty(p) = QtyReturned(colordef.genesis_outpoints[tx.vin[1].prevout])
        /\ validate(p).exc = "none"

\* C5 (as claimed): addcolordef(C) on a new database and then addtx(tx2),
\* where the input of tx2 spends a genesis outpoint of C of quantity q with
\* kernel 0x7E and mask bit 0 and output 0 has capacity >= q, leaves at
\* output 0 of tx2 a transferred proof of C of qty q that validates.
EndToEndStep ==
    (/\ db.nops = 1
     /\ db.last.op = "addcolordef"
     /\ db'.last.op = "addtx"
     /\ SpendsGenesisToOutput0(db.last.arg, db'.last.arg))
        => /\ db'.last.exc = "none"
           /\ HoldsTransferredGenesisQty(db', db.last.arg, db'.last.arg)

EndToEnd == [][EndToEndStep]_vars

\* C5 (amended): the same when, in addition, bits 8-15 of the input's
\* decrypted nSequence are zero.
EndToEndReservedZeroStep ==
    (/\ db.nops = 1
     /\ db.last.op = "addcolordef"
     /\ db'.last.op = "addtx"
     /\ SpendsGenesisToOutput0(db.last.arg, db'.last.arg)
     /\ ReservedBitsZero(db.last.arg, db'.last.arg))
        => /\ db'.last.exc = "none"
           /\ HoldsTransferredGenesisQty(db', db.last.arg, db'.last.arg)

EndToEndReservedZero == [][EndToEndReservedZeroStep]_vars

\* C5's case: a database that holds one colordef, its genesis proofs and
\* what one addtx of such a transaction added, the input's nSequence
\* being under the colordef's pad.
EndToEndWitness ==
    /\ db.nops = 2
    /\ db.last.op = "addtx"
    /\ db.last.exc = "none"
    /\ \E colordef \in db.colordefs :
          /\ db.colordefs = {colordef}
          /\ {e \in db.colored_outpoints : e.proof.kind = "GenesisOutPoint"}
                 = addcolordef(ColorProofDb, colordef).colored_outpoints
          /\ SpendsGenesisToOutput0(colordef, db.last.arg)
          /\ ReservedBitsZero(colordef, db.last.arg)
          /\ Bit(db.last.arg.vin[1].nSequence, 7) = 1
          /\ HoldsTransferredGenesisQty(db, colordef, db.last.arg)
\* the colordef is indexed in the database: it is in colordefs, each of its
\* genesis outpoints is in genesis_outpoints and has its genesis proof, of
\* the genesis quantity, and each of its genesis scripts is in
\* genesis_scriptPubKeys
ColorDefIndexed(self, colordef) ==
    /\ colordef \in self.colordefs
    /\ \A o \in DOMAIN colordef.genesis_outpoints :
          /\ <<o, colordef>> \in self.genesis_outpoints
          /\ GenesisOutPointColorProof(colordef, o) \in ProofsAt(self, o, colordef)
          /\ qty(GenesisOutPointColorProof(colordef, o))
                 = QtyReturned(colordef.genesis_outpoints[o])
    /\ \A s \in colordef.genesis_scriptPubKeys :
          <<s, colordef>> \in self.genesis_scriptPubKeys

\* one call on the database: the colordef of an addcolordef is indexed after
\* it, and so is every colordef the database held before the call
ColorDefsIndexedStep ==
    /\ db'.last.op = "addcolordef" => ColorDefIndexed(db', db'.last.arg)
    /\ \A colordef \in db.colordefs : ColorDefIndexed(db', colordef)
    /\ \A e \in db'.genesis_outpoints : e[2] \in db'.colordefs
    /\ \A e \in db'.genesis_scriptPubKeys : e[2] \in db'.colordefs

\* C13: after addcolordef(C), and after every later call on the database,
\* whether it returns or raises, C is in colordefs, every genesis outpoint
\* of C is in genesis_outpoints with C and holds the genesis proof of C with
\* the genesis quantity, and every genesis script of C is in
\* genesis_scriptPubKeys with C.
ColorDefsIndexed == [][ColorDefsIndexedStep]_vars

\* C13's case: a colordef with a genesis outpoint and a genesis script is in
\* the database, and the last call was an addtx that added proofs for it.
ColorDefsIndexedWitness ==
    /\ db.last.op = "addtx"
    /\ ColorDefB \in db.colordefs
    /\ db.last.arg.vin[1].prevout \in DOMAIN ColorDefB.genesis_outpoints
    /\ \E e \in db.colored_outpoints :
          e.colordef = ColorDefB /\ e.proof.kind = "Transferred"

\* the rank of a kind of proof in C14: genesis outpoint, then genesis
\* script, then transferred
KindRank(kind) ==
    IF kind = "GenesisOutPoint" THEN 0
    ELSE IF kind = "GenesisScriptPubKey" THEN 1
    ELSE 2

\* one addtx: every transferred proof the call added refers, for each of
\* its prevouts, to a proof stored at that outpoint for the colordef, and no
\* proof stored there is of a kind that ranks before it
BestKindPickedStep ==
    db'.last.op = "addtx" =>
        \A e \in db'.colored_outpoints \ db.colored_outpoints :
            e.proof.kind = "Transferred" =>
                \A o \in DOMAIN e.proof.prevout_proofs :
                    /\ e.proof.prevout_proofs[o] \in ProofsAt(db, o, e.colordef)
                    /\ \A candidate \in ProofsAt(db, o, e.colordef) :
                          KindRank(e.proof.prevout_proofs[o].kind)
                              <= KindRank(candidate.kind)

\* C14: the prevout proof that a TransferredColorProof made by addtx refers
\* to is, for each spent outpoint and colordef, of the first kind present
\* among the candidates at the outpoint: genesis outpoint, else genesis
\* script, else transferred.
BestKindPicked == [][BestKindPickedStep]_vars

\* C14's case: addtx returned and stored a transferred proof over a genesis
\* script proof, where the spent outpoint also holds a transferred proof of
\* the colordef.
BestKindPickedWitness ==
    /\ db.last.op = "addtx"
    /\ db.last.exc = "none"
    /\ \E e \in db.colored_outpoints :
          /\ e.proof.kind = "Transferred"
          /\ e.proof.tx = db.last.arg
          /\ \E o \in DOMAIN e.proof.prevout_proofs :
                /\ e.proof.prevout_proofs[o].kind = "GenesisScriptPubKey"
                /\ \E candidate \in ProofsAt(db, o, e.colordef) :
                      candidate.kind = "Transferred"

\* what a ColorProofDb holds
DbContent(self) ==
    [colordefs |-> self.colordefs,
     genesis_outpoints |-> self.genesis_outpoints,
     genesis_scriptPubKeys |-> self.genesis_scriptPubKeys,
     colored_outpoints |-> self.colored_outpoints]

\* one addtx(tx) made right after addtx(tx): it ends as the call before it
\* did and leaves what the database holds as it was
AddTxTwiceStep ==
    (db'.last.op = "addtx" /\ db'.last.found = "same call") =>
        /\ DbContent(db') = DbContent(db)
        /\ db'.last.exc = db.last.exc

\* C15: addtx(tx) called again right after addtx(tx), with no other call in
\* between, leaves the database unchanged: no candidate set gains a proof.
AddTxTwice == [][AddTxTwiceStep]_vars

\* C15's case: addtx(tx) made twice in a row has returned, and the database
\* holds a transferred proof made from tx.
AddTxTwiceWitness ==
    /\ db.last.op = "addtx"
    /\ db.last.found = "same call"
    /\ db.last.exc = "none"
    /\ \E e \in db.colored_outpoints :
          /\ e.proof.kind = "Transferred"
          /\ e.proof.tx = db.last.arg
          /\ e.outpoint.hash = TxHash(db.last.arg)

\* one addcolordef(C) with C in colordefs: nothing the database holds
\* changes and the call returns
AddColorDefPresentStep ==
    (db'.last.op = "addcolordef" /\ db'.last.arg \in db.colordefs) =>
        /\ db'.colordefs = db.colordefs
        /\ db'.genesis_outpoints = db.genesis_outpoints
        /\ db'.genesis_scriptPubKeys = db.genesis_scriptPubKeys
        /\ db'.colored_outpoints = db.colored_outpoints
        /\ db'.last.exc = "none"

\* C16: addcolordef(C) with C already in colordefs does nothing: colordefs,
\* genesis_outpoints, genesis_scriptPubKeys and colored_outpoints are
\* unchanged and no error is raised.
AddColorDefPresent == [][AddColorDefPresentStep]_vars

\* C16's case: addcolordef was called with a colordef that was present, in
\* a database that holds proofs of the colordef beside its genesis proofs.
AddColorDefPresentWitness ==
    /\ db.last.op = "addcolordef"
    /\ db.last.found = "present"
    /\ \E e \in db.colored_outpoints :
          /\ e.colordef = db.last.arg
          /\ e.proof.kind # "GenesisOutPoint"

\* no addcolordef of the model raises
AddColorDefReturns ==
    \A colordef \in DbColorDefs : addcolordefRaises(db, colordef) = "none"

\* C17: calc_state_hash depends on what the database holds only: whatever
\* the calls that put the content in, and so however the dicts and sets
\* iterate, a database of that content gives the hash that was returned.
StateHashOfContent ==
    db.last.op = "calc_state_hash" =>
        \A r \in calc_state_hash(db) :
            /\ (r.exc = "none") = (db.last.exc = "none")
            /\ r.exc = "none" => r.value = db.last.value

\* C17's case: calc_state_hash returned for a database with a set of two
\* proofs and with two coloured outpoints.
StateHashOfContentWitness ==
    /\ db.last.op = "calc_state_hash"
    /\ db.last.exc = "none"
    /\ \E e \in db.colored_outpoints :
          Cardinality(ProofsAt(db, e.outpoint, e.colordef)) >= 2
    /\ Cardinality({e.outpoint : e \in db.colored_outpoints}) >= 2

\* C18: apply_kernel raises, and so returns no list, whenever an input
\* with a colour quantity (0 included) has a routing field whose low 7 bits
\* are not 0x7E: the input is not passed over as uncoloured.
ForeignKernelRaises ==
    kern.pc # "idle" =>
        (kern.foreign => /\ kern.pc = "raised"
                         /\ kern.exc = "NotImplementedError")

\* C18's case: an input of a kernel number other than 0x7E and 0x7F came
\* after an input that had coloured an output.
ForeignKernelRaisesWitness ==
    /\ kern.pc = "raised"
    /\ kern.foreign
    /\ kern.nin >= 1
    /\ \E j \in 1..Len(kern.color_qtys_out) : kern.color_qtys_out[j] # None

\* C20 (as claimed): apply_kernel returns, for every output, None or a
\* quantity that is not zero, whatever the transaction (outputs of unpadded
\* capacity 0 included) and the input quantities.
NoZeroColoured ==
    kern.pc = "returned" =>
        \A j \in 1..Len(kern.color_qtys_out) : kern.color_qtys_out[j] # 0

\* the proofs of the colordef stored at some outpoint tx spends have a qty
\* each, and not all the same one
QtysDisagree(self, tx, colordef) ==
    \E outpoint \in ItemSet(Prevouts(tx, 1)) :
        /\ \A p \in ProofsAt(self, outpoint, colordef) : qty(p).exc = "none"
        /\ \E p1, p2 \in ProofsAt(self, outpoint, colordef) :
              qty(p1).value # qty(p2).value

\* the step is one addtx(tx) that stored a transferred proof of the colordef
StoresTransferred(colordef) ==
    \E e \in db'.colored_outpoints \ db.colored_outpoints :
        e.proof.kind = "Transferred" /\ e.colordef = colordef

\* one addtx(tx), for a colordef whose proofs at a prevout of tx disagree
AddTxDisagreeingStep ==
    \A colordef \in DbColorDefs :
        (/\ db'.nops = db.nops + 1
         /\ db'.last.op = "addtx"
         /\ QtysDisagree(db, db'.last.arg, colordef))
            => /\ db'.last.exc = "AssertionError"
               /\ ~ StoresTransferred(colordef)

\* C22 (as claimed): when, for some colordef, the proofs stored at an
\* outpoint that tx spends do not all have the same qty, addtx(tx) fails
\* with an assertion error and stores no TransferredColorProof of that
\* colordef.
AddTxDisagreeing == [][AddTxDisagreeingStep]_vars

\* every proof stored at an outpoint that tx spends has a qty
PrevoutQtysKnown(self, tx) ==
    \A e \in self.colored_outpoints :
        e.outpoint \in ItemSet(Prevouts(tx, 1)) => qty(e.proof).exc = "none"

\* one addtx(tx), for a colordef whose proofs at a prevout of tx disagree:
\* the call raises and stores no transferred proof of the colordef, and
\* what it raises is AssertionError when the colordef is the first that
\* the loop over the colordefs takes and no proof at a prevout has a qty
\* that raises
AddTxDisagreeingFailsStep ==
    \A colordef \in DbColorDefs :
        (/\ db'.nops = db.nops + 1
         /\ db'.last.op = "addtx"
         /\ QtysDisagree(db, db'.last.arg, colordef))
            => /\ db'.last.exc # "none"
               /\ ~ StoresTransferred(colordef)
               /\ (/\ db'.last.iteration.colordefs[1] = colordef
                   /\ PrevoutQtysKnown(db, db'.last.arg))
                      => db'.last.exc = "AssertionError"

\* C22 (amended): addtx(tx) raises and stores no TransferredColorProof of
\* the colordef; it raises AssertionError when that colordef comes first
\* in the loop and every proof at the prevouts has a qty, and otherwise
\* the exception that came before the assertion.
AddTxDisagreeingFails == [][AddTxDisagreeingFailsStep]_vars

\* C22's case: addtx(tx) failed its assertion, and an outpoint that tx
\* spends holds a genesis proof and a transferred proof of one colordef
\* with two quantities.
AddTxDisagreeingWitness ==
    /\ db.last.op = "addtx"
    /\ db.last.exc = "AssertionError"
    /\ PrevoutQtysKnown(db, db.last.arg)
    /\ \E colordef \in db.colordefs :
          /\ QtysDisagree(db, db.last.arg, colordef)
          /\ db.last.iteration.colordefs[1] = colordef
          /\ \E outpoint \in ItemSet(Prevouts(db.last.arg, 1)) :
                \E p1, p2 \in ProofsAt(db, outpoint, colordef) :
                    /\ p1.kind = "GenesisOutPoint"
                    /\ p2.kind = "Transferred"
                    /\ qty(p1).value # qty(p2).value

\* the proofs of the DAG of a proof: the proof and all it reaches through
\* prevout_proofs
RECURSIVE ProofDag(_)
ProofDag(proof) ==
    {proof} \cup
        (IF proof.kind = "Transferred"
         THEN UNION {ProofDag(proof.prevout_proofs[o]) : o \in DOMAIN proof.prevout_proofs}
         ELSE {})

\* C23: after addcolorproof(p) returns, p's colordef is in colordefs with
\* its genesis outpoints and genesis scripts indexed, and every proof of
\* the DAG that p reaches through prevout_proofs, p included, is stored in
\* colored_outpoints under its own (outpoint, colordef).
AddColorProofStoresDag ==
    (db.last.op = "addcolorproof" /\ db.last.exc = "none") =>
        /\ db.last.arg.colordef \in db.colordefs
        /\ \A o \in DOMAIN db.last.arg.colordef.genesis_outpoints :
              <<o, db.last.arg.colordef>> \in db.genesis_outpoints
        /\ \A s \in db.last.arg.colordef.genesis_scriptPubKeys :
              <<s, db.last.arg.colordef>> \in db.genesis_scriptPubKeys
        /\ \A proof \in ProofDag(db.last.arg) :
              proof \in ProofsAt(db, outpoint_of(proof), proof.colordef)

\* C23's case: addcolorproof returned for a transferred proof whose DAG is
\* two levels deep and reaches one genesis proof through two parents.
AddColorProofStoresDagWitness ==
    /\ db.last.op = "addcolorproof"
    /\ db.last.exc = "none"
    /\ db.last.arg.kind = "Transferred"
    /\ Cardinality(ProofDag(db.last.arg)) = 3
    /\ \E o1, o2 \in DOMAIN db.last.arg.prevout_proofs :
          /\ db.last.arg.prevout_proofs[o1].kind = "Transferred"
          /\ db.last.arg.prevout_proofs[o2] \in ProofDag(db.last.arg.prevout_proofs[o1])

\* C24: validate() terminates on every finite acyclic proof DAG: the list
\* of remaining proofs becomes empty in the end, also when a proof is the
\* prevout proof of several parents, and validate() then returns, unless it
\* raised before.
ValidateTerminates ==
    <>(\/ prf.pc = "raised"
       \/ prf.pc = "returned" /\ prf.remaining_proofs = <<>>)

\* C24's case: validate() returned after it walked a DAG two levels deep in
\* which one proof hangs under two parents, so that _validate() ran on it
\* twice.
ValidateTerminatesWitness ==
    /\ prf.pc = "returned"
    /\ prf.remaining_proofs = <<>>
    /\ \E path1, path2 \in prf.visited :
          /\ path1 # path2
          /\ Len(path1) # Len(path2)
          /\ ProofAt(prf.proof, path1) = ProofAt(prf.proof, path2)

\* C28: after addcolordef and addtx calls only, on a database that was
\* empty, every proof of colored_outpoints passes validate() and is stored
\* under its own outpoint and colordef.
StoredProofsValid ==
    \A e \in db.colored_outpoints :
        /\ validate(e.proof).exc = "none"
        /\ e.outpoint = outpoint_of(e.proof)
        /\ e.colordef = e.proof.colordef

StoredProofsValidWitness ==
    /\ db.last.op = "addtx"
    /\ \E e \in db.colored_outpoints :
          /\ e.proof.kind = "Transferred"
          /\ \E o \in DOMAIN e.proof.prevout_proofs :
                e.proof.prevout_proofs[o].kind # "GenesisOutPoint"
          /\ validate(e.proof).exc = "none"
    /\ \E e \in db.colored_outpoints : e.proof.kind = "GenesisScriptPubKey"
    /\ \E e \in db.colored_outpoints : e.proof.kind = "GenesisOutPoint"

\* an addtx(tx) that raised leaves what the database holds as it was
AddTxFailureAtomicStep ==
    (db'.last.op = "addtx" /\ db'.last.exc # "none") =>
        DbContent(db') = DbContent(db)

\* C29 (as claimed): an addtx(tx) that fails leaves the index as it was
\* before the call: no genesis script proof of tx's outputs and no
\* transferred proof of a colordef handled earlier in the call stays.
AddTxFailureAtomic == [][AddTxFailureAtomicStep]_vars

(***************************************************************************)
(* The proofs' properties.                                                 *)
(***************************************************************************)
\* C6 (as claimed): when validate() was called on a transferred proof whose
\* cached qty is not the quantity the kernel now gives at the proof's
\* output (from the qty of the prevout proofs), the call raised
\* ColorProofValidationError.
ValidateDetectsStaleQty ==
    (/\ prf.op = "validate"
     /\ prf.proof.kind = "Transferred"
     /\ prf.proof._cached_qty # None
     /\ calc_qty(prf.proof).exc = "none"
     /\ calc_qty(prf.proof).value # prf.proof._cached_qty)
        => prf.exc = "ColorProofValidationError"

\* the proofs reachable from a proof through prevout_proofs, itself included
RECURSIVE ReachableProofs(_)
ReachableProofs(proof) ==
    {proof} \cup
        (IF proof.kind = "Transferred"
         THEN UNION {ReachableProofs(proof.prevout_proofs[o]) : o \in DOMAIN proof.prevout_proofs}
         ELSE {})

\* the local checks of C7: the genesis outpoint is one of the colordef, the
\* output index is within the transaction's outputs, the output's script is
\* a genesis script, the kernel gives a quantity at the index
LocalCheckFails(proof) ==
    IF proof.kind = "GenesisOutPoint"
    THEN proof.outpoint \notin DOMAIN proof.colordef.genesis_outpoints
    ELSE IF proof.kind = "GenesisScriptPubKey"
    THEN \/ proof.n >= Len(proof.tx.vout)
         \/ proof.tx.vout[proof.n + 1].scriptPubKey \notin proof.colordef.genesis_scriptPubKeys
    ELSE \/ proof.n >= Len(proof.tx.vout)
         \/ calc_qty(proof).exc = "ColorProofValidationError"

\* C7 (as claimed): when validate() was called on a proof from which a
\* proof that fails its local check can be reached, the call raised, and
\* what it raised is ColorProofValidationError.
ValidateRaisesTypedError ==
    (/\ prf.op = "validate"
     /\ \E proof \in ReachableProofs(prf.proof) : LocalCheckFails(proof))
        => prf.exc = "ColorProofValidationError"

(***************************************************************************)
(* The DagTuple's properties.                                              *)
(***************************************************************************)
\* the values of a sequence without the later repetitions
RECURSIVE FirstOccurrences(_)
FirstOccurrences(t) ==
    IF t = <<>> THEN <<>>
    ELSE Eval(FirstOccurrences(SubSeq(t, 1, Len(t) - 1)),
              LAMBDA before : IF t[Len(t)] \in ItemSet(before) THEN before
                              ELSE Append(before, t[Len(t)]))

\* insertion order: every parent's whole sequence in parent order, each value
\* once, then the tuple's own values
RECURSIVE InsertionOrder(_, _), InsertionOrderOfParents(_, _, _)
InsertionOrderOfParents(heap, parents, k) ==
    IF k > Len(parents) THEN <<>>
    ELSE InsertionOrder(heap, parents[k]) \o InsertionOrderOfParents(heap, parents, k + 1)
InsertionOrder(heap, node) ==
    FirstOccurrences(InsertionOrderOfParents(heap, heap[node].parents, 1))
        \o heap[node].values

\* C26: iterating a DagTuple yields the whole iteration sequence of each
\* parent in parent order, a value of an ancestor reached through several
\* parents once at its first position, then the tuple's own values.
DagIterInsertionOrder ==
    dag.pc = "ready" /\ dag.last.op = "iter"
        => dag.last.value = InsertionOrder(dag.heap, dag.last.node)

(***************************************************************************)
(* The wallet's properties.                                                *)
(***************************************************************************)
WalletQtyIn == SumQtyIn(SelectSeq(wal.prevouts, IsColorProof), 1)
WalletQtyOut == SumQtyOut(wal.amounts_out, 1)

\* what the claim asks of the call: every coloured output asked for has a
\* quantity of 1 or more, and there is a change script when colour is left
WalletCallAsClaimed ==
    /\ \A k \in 1..Len(wal.amounts_out) :
           wal.amounts_out[k][1] # None => wal.amounts_out[k][1] >= 1
    /\ WalletQtyIn > WalletQtyOut => wal.get_change_scriptPubKey # None

\* the quantities asked for, output by output, with the change at the end
WalletQtysAsked ==
    [k \in 1..(Len(wal.amounts_out) + (IF WalletQtyIn > WalletQtyOut THEN 1 ELSE 0)) |->
        IF k <= Len(wal.amounts_out) THEN wal.amounts_out[k][1]
        ELSE WalletQtyIn - WalletQtyOut]

=============================================================================
